---------------------------- MODULE Spec2Model ----------------------------
(***************************************************************************)
(* Session lifecycle and request-relay engine of the Primavera P6 MCP      *)
(* agent (PrimaveraP6_MCP_Agent/p6_mcp_phase3_2.py).                       *)
(*                                                                         *)
(* Request handlers are FastAPI "def" endpoints: each inbound call runs on *)
(* a worker thread of the server's pool.  A handler is modelled as a       *)
(* sequence of steps; a step ends where the handler blocks on the network  *)
(* or where another thread's access to the shared SessionManager can be    *)
(* observed.  The upstream service is the environment: the answer to an    *)
(* outbound request is chosen when the handler receives it.                *)
(*                                                                         *)
(* Python strings that the code takes apart (URLs, paths, hosts) are       *)
(* sequences of one-character strings.  Opaque strings (session ids,       *)
(* cookies, tokens) are TLA+ strings; None is the value None below.        *)
(***************************************************************************)
EXTENDS Integers, Sequences, FiniteSets, TLC

(***************************************************************************)
(* Bounds of the model.                                                    *)
(***************************************************************************)
\* the wall clock (milliseconds) stops advancing here
MaxClock == 1

None == "<None>"

(***************************************************************************)
(* Python str methods, on sequences of characters.                         *)
(***************************************************************************)
\* s.startswith(prefix)
StartsWith(s, prefix) ==
    /\ Len(prefix) <= Len(s)
    /\ SubSeq(s, 1, Len(prefix)) = prefix

\* s.find(sep) + 1: the position of the first occurrence of sep, 0 if none
IndexOf(s, sep) ==
    LET hits == { i \in 1..(Len(s) - Len(sep) + 1) :
                      SubSeq(s, i, i + Len(sep) - 1) = sep }
    IN  IF hits = {} THEN 0
        ELSE CHOOSE i \in hits : \A j \in hits : i <= j

\* s.split(sep, 1)
Split1(s, sep) ==
    LET i == IndexOf(s, sep)
    IN  IF i = 0 THEN << s >>
        ELSE << SubSeq(s, 1, i - 1), SubSeq(s, i + Len(sep), Len(s)) >>

\* seq[-1]
Last(seq) == seq[Len(seq)]

\* s.rstrip("/")
RECURSIVE RStripSlash(_)
RStripSlash(s) ==
    IF s # << >> /\ s[Len(s)] = "/"
    THEN RStripSlash(SubSeq(s, 1, Len(s) - 1))
    ELSE s

\* (url.split("//", 1)[-1]).split("/", 1)[0]
HostOf(url) == Split1(Last(Split1(url, << "/", "/" >>)), << "/" >>)[1]


(***************************************************************************)
(* Configuration (environment variables, read once at import) and state.   *)
(***************************************************************************)
VARIABLES
    P6_BASE_URL,              \* os.getenv("P6_BASE_URL", ...)
    ALLOWED_HOST_ENV,         \* the ALLOWED_HOST variable: [set, value]
    AUTO_SESSION_ENABLED,
    AUTO_SESSION_STRICT_MODE,
    P6_VERSION,               \* os.getenv("P6_VERSION", "")
    clock,                    \* time.time(), in milliseconds
    sessions,                 \* session_manager.sessions: the dict, in insertion
                              \* order, of [sid, obj]; obj indexes heap
    heap,                     \* the Session objects alive, by object number
    disk,                     \* contents of SESSION_STORE_FILE
    th,                       \* per thread: the frame of the handler it runs
    sent                      \* the hosts outbound requests have gone to

config == << P6_BASE_URL, ALLOWED_HOST_ENV, AUTO_SESSION_ENABLED,
             AUTO_SESSION_STRICT_MODE, P6_VERSION >>
store  == << sessions, heap, disk >>
vars   == << config, clock, store, th, sent >>

\* the worker threads of the server's pool
Threads == DOMAIN th

\* The base URLs the deployment may be configured with.
BaseUrls ==
    { << "s", ":", "/", "/", "a", "/", "r" >>,          \* s://a/r
      << "s", ":", "/", "/", "a", "/", "r", "/" >>,     \* s://a/r/
      << "a", "/", "r" >> }                             \* a/r (no scheme)

\* ALLOWED_HOST unset, or set to a host
AllowedHostEnvs ==
    { [set |-> FALSE, value |-> << >>],
      [set |-> TRUE,  value |-> << "a" >>],
      [set |-> TRUE,  value |-> << "b" >>] }

DEFAULT_ALLOWED_HOST ==
    Split1(Last(Split1(P6_BASE_URL, << "/", "/" >>)), << "/" >>)[1]

ALLOWED_HOST ==
    IF ALLOWED_HOST_ENV.set THEN ALLOWED_HOST_ENV.value
    ELSE DEFAULT_ALLOWED_HOST

(***************************************************************************)
(* Session records and the SessionManager.                                 *)
(***************************************************************************)
\* Session.creds is None
NoCreds ==
    [present |-> FALSE, username |-> << >>, password |-> << >>,
     database_name |-> << >>]

\* credentials kept with the username and the password in each other's place
SavedCreds_swapped(username, password, database_name) ==
    [present |-> TRUE, username |-> password, password |-> username,
     database_name |-> database_name]

SavedCreds(username, password, database_name) ==
    [present |-> TRUE, username |-> username, password |-> password,
     database_name |-> database_name]

Session(cookies, auth_token, created_at, database_name, creds) ==
    [cookies |-> cookies, auth_token |-> auth_token,
     created_at |-> created_at, database_name |-> database_name,
     creds |-> creds]

\* str(n) for the session ids the clock can produce
ToStr(n) == << "0", "1", "2", "3", "4", "5", "6", "7", "8", "9" >>[n + 1]

\* str(int(time.time() * 1000)) at clock reading now
mk_session_id(now) == ToStr(now)

\* Python truthiness of an Optional[str]
Truthy(s) == s # None /\ s # ""

Sids == { sessions[i].sid : i \in 1..Len(sessions) }

\* session_id in self.sessions
Has(sid) == sid \in Sids

PosOf(sid) == CHOOSE i \in 1..Len(sessions) : sessions[i].sid = sid

\* SessionManager.get_session: the Session object, 0 for None
get_session(sid) == IF Has(sid) THEN sessions[PosOf(sid)].obj ELSE 0

\* a store that took the session inserted last for the latest
latest_inserted ==
    IF sessions = << >> THEN None ELSE sessions[Len(sessions)].sid

\* SessionManager.get_latest_session_id: max() keeps the first maximal item
\* of the dict's iteration order
get_latest_session_id ==
    IF Len(sessions) = 0 THEN None
    ELSE LET at(i) == heap[sessions[i].obj].created_at
             best == CHOOSE i \in 1..Len(sessions) :
                        \A j \in 1..Len(sessions) :
                            \/ at(j) < at(i)
                            \/ at(j) = at(i) /\ i <= j
         IN  sessions[best].sid

\* a get_latest_session that took the session inserted first
get_first_session ==
    IF sessions = << >> THEN [sid |-> None, obj |-> 0]
    ELSE [sid |-> sessions[1].sid, obj |-> sessions[1].obj]

\* SessionManager.get_latest_session: [sid, obj], obj = 0 for None
get_latest_session ==
    LET sid == get_latest_session_id
    IN  IF Truthy(sid) THEN [sid |-> sid, obj |-> get_session(sid)]
        ELSE [sid |-> None, obj |-> 0]

\* JSON null
JsonNull == [null |-> TRUE]

\* sess.dict(): the fields of a Session as json.dump writes them, creds
\* being null or the object of its three fields
session_dict(session) ==
    [cookies |-> session.cookies, auth_token |-> session.auth_token,
     created_at |-> session.created_at,
     database_name |-> session.database_name,
     creds |-> IF session.creds.present
               THEN [username |-> session.creds.username,
                     password |-> session.creds.password,
                     database_name |-> session.creds.database_name]
               ELSE JsonNull]

\* Session(**sess_data) validates: cookies is the one required field
WellFormed(sess_data) == "cookies" \in DOMAIN sess_data

\* a load that dropped the remembered credentials
Session_from_no_creds(sess_data) ==
    Session(sess_data.cookies, sess_data.auth_token, sess_data.created_at,
            sess_data.database_name, NoCreds)

\* Session(**sess_data) for sess_data that validates
Session_from(sess_data) ==
    Session(sess_data.cookies, sess_data.auth_token, sess_data.created_at,
            sess_data.database_name,
            IF sess_data.creds = JsonNull THEN NoCreds
            ELSE SavedCreds(sess_data.creds.username,
                            sess_data.creds.password,
                            sess_data.creds.database_name))

\* The store file is the sequence of the members of its JSON object, in the
\* order of the text, << >> for {} and for no file; Garbage is a file that
\* json.load cannot parse (not JSON, cut short, empty).
Garbage == << [garbage |-> TRUE] >>
IsJson(file) == \A i \in 1..Len(file) : "sid" \in DOMAIN file[i]

\* SessionManager._load_from_disk: the dict and the objects it leaves.  The
\* loop inserts entry after entry inside the try, so the entries before the
\* first one that does not validate stay in the dict.
load_from_disk(file) ==
    LET bad == { i \in 1..Len(file) : ~WellFormed(file[i].data) }
        n   == IF ~IsJson(file) THEN 0
               ELSE IF bad = {} THEN Len(file)
               ELSE (CHOOSE i \in bad : \A k \in bad : i <= k) - 1
    IN  [sessions |-> [i \in 1..n |-> [sid |-> file[i].sid, obj |-> i]],
         heap     |-> [i \in 1..n |-> Session_from(file[i].data)]]

\* what _save_to_disk writes for a dict d over heap h
Snapshot(d, h) ==
    [i \in 1..Len(d) |->
        [sid |-> d[i].sid, data |-> session_dict(h[d[i].obj])]]

\* how a write of the store file can end: written; refused, open() raising
\* and the file left as it was; torn, the file truncated by open() and the
\* dump cut short
DiskOutcomes == { "written", "refused", "torn" }

\* SessionManager._save_to_disk with dict d and objects h over file: the file
\* it leaves
save_to_disk(file, d, h, outcome) ==
    CASE outcome = "written" -> Snapshot(d, h)
      [] outcome = "refused" -> file
      [] outcome = "torn"    -> Garbage

\* self.sessions[session_id] = session: an existing key keeps its place
DictSet(d, sid, obj) ==
    IF \E i \in 1..Len(d) : d[i].sid = sid
    THEN [i \in 1..Len(d) |->
             IF d[i].sid = sid THEN [sid |-> sid, obj |-> obj] ELSE d[i]]
    ELSE Append(d, [sid |-> sid, obj |-> obj])

\* del self.sessions[session_id]
DictDel(d, sid) == SelectSeq(d, LAMBDA e : e.sid # sid)

\* the object number a new Session object gets
NewObj == CHOOSE o \in 1..(Cardinality(DOMAIN heap) + 1) : o \notin DOMAIN heap

\* h without the objects that neither the dict d nor a frame of fr refers to
\* (CPython frees an object with its last reference)
Collect(h, d, fr) ==
    LET live == { d[i].obj : i \in 1..Len(d) }
                    \cup { fr[u].ses : u \in DOMAIN fr }
    IN  [o \in (DOMAIN h) \cap live |-> h[o]]

\* an add_session that kept the session only once the file was written
add_session_after_write(sid, session, outcome) ==
    /\ sessions' = IF outcome = "written"
                   THEN DictSet(sessions, sid, NewObj) ELSE sessions
    /\ disk' = save_to_disk(disk, sessions', (NewObj :> session) @@ heap,
                            outcome)

\* SessionManager.add_session: the dict and the file after the call, the
\* write of the file ending as outcome
add_session_on(sid, session, outcome) ==
    /\ sessions' = DictSet(sessions, sid, NewObj)
    /\ disk' = save_to_disk(disk, sessions', (NewObj :> session) @@ heap,
                            outcome)

add_session(sid, session) == add_session_on(sid, session, "written")

\* a remove_session that saved whether or not it had found the id
remove_session_saving(sid, outcome) ==
    /\ sessions' = DictDel(sessions, sid)
    /\ disk' = save_to_disk(disk, sessions', heap, outcome)

\* SessionManager.remove_session: the dict and the file after the call
remove_session_on(sid, outcome) ==
    IF Has(sid)
    THEN /\ sessions' = DictDel(sessions, sid)
         /\ disk' = save_to_disk(disk, sessions', heap, outcome)
    ELSE UNCHANGED << sessions, disk >>

\* a remove_session that emptied the store
remove_session_clearing(sid) ==
    /\ sessions' = << >>
    /\ disk' = save_to_disk(disk, sessions', heap, "written")

remove_session(sid) == remove_session_on(sid, "written")

\* SessionManager.clear_all: the dict and the file after the call
clear_all_on(outcome) ==
    /\ sessions' = << >>
    /\ disk' = save_to_disk(disk, sessions', heap, outcome)

clear_all == clear_all_on("written")

(***************************************************************************)
(* Values exchanged with callers and with the upstream.                    *)
(***************************************************************************)
ProxyResponse(status, body) ==
    [type |-> "ProxyResponse", status |-> status, body |-> body]

HTTPException(status_code, detail) ==
    [type |-> "HTTPException", status |-> status_code, detail |-> detail]

\* the HTTPException of _try_login: its detail is "Re-login failed: "
\* followed by text, the start of the upstream's answer
LoginFailed(status_code, detail, text) ==
    [type |-> "HTTPException", status |-> status_code, detail |-> detail,
     text |-> text]

\* an exception no handler catches: the server answers 500
Unhandled(exc) ==
    [type |-> "Unhandled", status |-> 500, detail |-> exc]

LoginResponse(session_id, cookies, authToken, remember) ==
    [type |-> "LoginResponse", session_id |-> session_id,
     cookies |-> cookies, authToken |-> authToken, remember |-> remember]

NoResult == [type |-> None]

\* what the upstream may answer to a relayed request: a status and a body,
\* the body being a JSON list with items, an empty JSON list, text sent as
\* application/json that does not parse, or plain text; a success comes with
\* any body, a 401 with either of two, a 500 with text
BodyKinds == { "json_items", "json_empty", "json_bad", "text" }
UpstreamStatuses == { 200, 401, 500 }
UpstreamResponses ==
    { resp \in [status : UpstreamStatuses, body : BodyKinds] :
         \/ resp.status = 200
         \/ resp.status = 401 /\ resp.body \in { "text", "json_bad" }
         \/ resp.status = 500 /\ resp.body = "text" }
NoResponse == [status |-> 0, body |-> None]

\* what the upstream may answer to POST /login: the cookies of the jar, the
\* AuthToken header and the token field of the JSON body
LoginAnswers ==
    { [status |-> 200, cookies |-> "c1", header |-> "t1", json |-> "t2",
       text |-> << >>],
      [status |-> 200, cookies |-> "c2", header |-> None, json |-> "t2",
       text |-> << >>],
      [status |-> 401, cookies |-> "",   header |-> None, json |-> None,
       text |-> << "n", "o" >>],
      \* an error page that names the user it was asked to log in
      [status |-> 500, cookies |-> "",   header |-> None, json |-> None,
       text |-> << "n", "o", " ", "u" >>] }

\* r.text[:500]
DetailLimit == 500
Truncated(text) ==
    IF Len(text) <= DetailLimit THEN text ELSE SubSeq(text, 1, DetailLimit)

(***************************************************************************)
(* Utilities of the relay.                                                 *)
(***************************************************************************)
\* urllib.parse.quote_plus on one character
QuotePlusChar(c) ==
    CASE c = " " -> << "+" >>
      [] c = "/" -> << "%", "2", "F" >>
      [] c = "'" -> << "%", "2", "7" >>
      [] c = "=" -> << "%", "3", "D" >>
      [] c = "?" -> << "%", "3", "F" >>
      [] c = "&" -> << "%", "2", "6" >>
      [] c = ":" -> << "%", "3", "A" >>
      [] c = "%" -> << "%", "2", "5" >>
      [] c = "," -> << "%", "2", "C" >>
      [] OTHER   -> << c >>

RECURSIVE QuotePlus(_)
QuotePlus(s) ==
    IF s = << >> THEN << >>
    ELSE QuotePlusChar(Head(s)) \o QuotePlus(Tail(s))

\* urllib.parse.urlencode(params, doseq=True), params the dict's items
RECURSIVE urlencode(_)
urlencode(params) ==
    IF params = << >> THEN << >>
    ELSE LET kv == Head(params)
             one == QuotePlus(kv[1]) \o << "=" >> \o QuotePlus(kv[2])
         IN  IF Len(params) = 1 THEN one
             ELSE one \o << "&" >> \o urlencode(Tail(params))

\* a query argument: None, or a dict given as its items
NoQuery == [given |-> FALSE, params |-> << >>]
Query(params) == [given |-> TRUE, params |-> params]

build_target_url(path, query) ==
    LET path1  == IF StartsWith(path, << "/" >>) THEN path
                  ELSE << "/" >> \o path
        base   == RStripSlash(P6_BASE_URL)
        params == IF query.given /\ query.params # << >>
                  THEN query.params ELSE << >>
    IN  IF params # << >>
        THEN base \o path1 \o << "?" >> \o urlencode(params)
        ELSE base \o path1

\* urllib.parse.quote(database_name): "/" is safe, a space becomes %20
RECURSIVE Quote(_)
Quote(s) ==
    IF s = << >> THEN << >>
    ELSE (CASE Head(s) = "/" -> << "/" >>
            [] Head(s) = " " -> << "%", "2", "0" >>
            [] OTHER         -> QuotePlusChar(Head(s))) \o Quote(Tail(s))

\* the login_url of _try_login
login_url(database_name) ==
    P6_BASE_URL \o << "/", "login", "?", "DatabaseName", "=" >>
                \o Quote(database_name)

\* a _try_login that raised on server errors only
try_login_5xx(a) ==
    IF a.status >= 500
    THEN [raised |-> TRUE, status |-> a.status, detail |-> "Re-login failed",
          text |-> Truncated(a.text), cookies |-> None, auth_token |-> None]
    ELSE [raised |-> FALSE, status |-> a.status, detail |-> None,
          text |-> << >>, cookies |-> a.cookies,
          auth_token |-> IF Truthy(a.header) THEN a.header ELSE a.json]

\* _try_login, once the upstream has answered a; the detail of its exception
\* goes on with the first 500 characters of the answer's text
try_login(a) ==
    IF a.status >= 400
    THEN [raised |-> TRUE, status |-> a.status, detail |-> "Re-login failed",
          text |-> Truncated(a.text), cookies |-> None, auth_token |-> None]
    ELSE [raised |-> FALSE, status |-> a.status, detail |-> None,
          text |-> << >>, cookies |-> a.cookies,
          auth_token |-> IF Truthy(a.header) THEN a.header ELSE a.json]

(***************************************************************************)
(* The session resolver.                                                   *)
(***************************************************************************)
\* the detail of the 401 of strict mode
NoActiveSession == "No active session found. Please login first via /login"

Resolved(sid) ==
    [raised |-> FALSE, sid |-> sid, status |-> 0, detail |-> None]
Raised(status, detail) ==
    [raised |-> TRUE, sid |-> None, status |-> status, detail |-> detail]

\* a resolver that fell back to the session inserted first
get_session_id_or_first(provided_session_id) ==
    IF Truthy(provided_session_id)
    THEN Resolved(provided_session_id)
    ELSE IF ~AUTO_SESSION_ENABLED
    THEN Raised(401, "session_id required (AUTO_SESSION_ENABLED is disabled)")
    ELSE IF sessions = << >>
    THEN Raised(401, NoActiveSession)
    ELSE Resolved(sessions[1].sid)

\* a resolver that consulted AUTO_SESSION_ENABLED only once the store had
\* turned out empty
get_session_id_latest_first(provided_session_id) ==
    IF Truthy(provided_session_id)
    THEN Resolved(provided_session_id)
    ELSE IF Truthy(get_latest_session_id)
    THEN Resolved(get_latest_session_id)
    ELSE IF ~AUTO_SESSION_ENABLED
    THEN Raised(401, "session_id required (AUTO_SESSION_ENABLED is disabled)")
    ELSE Raised(401, NoActiveSession)

get_session_id_or_latest(provided_session_id) ==
    IF Truthy(provided_session_id)
    THEN Resolved(provided_session_id)
    ELSE IF ~AUTO_SESSION_ENABLED
    THEN Raised(401, "session_id required (AUTO_SESSION_ENABLED is disabled)")
    ELSE LET latest_sid == get_latest_session_id
         IN  IF ~Truthy(latest_sid)
             THEN IF AUTO_SESSION_STRICT_MODE
                  THEN Raised(401, NoActiveSession)
                  ELSE Raised(401, "No sessions available")
             ELSE Resolved(latest_sid)

(***************************************************************************)
(* Handler frames.                                                         *)
(***************************************************************************)
\* os.getenv("P6_ACCEPT", "application/json"), left at its default
P6_ACCEPT == "application/json"

\* the header names that occur: the four _default_headers sets, one of them
\* in another spelling (a dict's keys are case-sensitive), and a header of
\* the caller's own
HeaderNames == { "Accept", "Cookie", "Version", "AuthToken", "cookie",
                 "X-Trace" }

\* a dict of headers: the value under each name, None for a name not in it
NoHeaders == [n \in HeaderNames |-> None]

\* a _default_headers that let its own values win over the caller's
default_headers_over_extra(ses, extra) ==
    [n \in HeaderNames |->
        CASE n = "Accept"    -> P6_ACCEPT
          [] n = "Cookie"    -> ses.cookies
          [] n = "Version"   -> IF Truthy(P6_VERSION) THEN P6_VERSION
                                ELSE extra[n]
          [] n = "AuthToken" -> IF Truthy(ses.auth_token) THEN ses.auth_token
                                ELSE extra[n]
          [] OTHER           -> extra[n]]

\* _default_headers(ses, extra), ses the Session's value when it is read;
\* extra may be NoHeaders, for None or an empty dict
default_headers(ses, extra) ==
    LET headers == [n \in HeaderNames |->
                      CASE n = "Accept"    -> P6_ACCEPT
                        [] n = "Cookie"    -> ses.cookies
                        [] n = "Version"   -> IF Truthy(P6_VERSION)
                                              THEN P6_VERSION ELSE None
                        [] n = "AuthToken" -> IF Truthy(ses.auth_token)
                                              THEN ses.auth_token ELSE None
                        [] OTHER           -> None]
    IN  \* headers.update(extra)
        [n \in HeaderNames |->
            IF extra[n] # None THEN extra[n] ELSE headers[n]]

\* the extra of the retry: the headers of the first attempt but those named
\* Cookie, AuthToken, Accept, Version
retry_extra(headers) ==
    [n \in HeaderNames |->
        IF n \in { "Cookie", "AuthToken", "Accept", "Version" } THEN None
        ELSE headers[n]]

Frame0 ==
    [pc        |-> "idle",       \* idle, fetch, first, wait1, relogin_wait,
                                 \* set_token, wait2, login_wait, done
     op        |-> None,
     req       |-> [session_id |-> None],
     ses_id    |-> None,
     ses       |-> 0,            \* the Session object held, 0 for none
     url       |-> << >>,
     headers   |-> NoHeaders,    \* the headers of the upstream request
     stage     |-> None,         \* projects_by_obs: "obs", then "proj"
     r         |-> NoResponse,   \* the first upstream response
     r2        |-> NoResponse,   \* the response to the retry
     new_token |-> None,
     login_status |-> 0,         \* the status of the re-login's answer
     result    |-> NoResult,
     nUp       |-> 0,            \* upstream requests of the current relay
     nLogin    |-> 0]            \* login requests of the current relay

\* a worker thread takes the next inbound call
Ready(t) == th[t].pc = "idle"

\* the handler returns or raises res: its locals are gone; the frame keeps,
\* for the record of the call, the upstream's answers and the request counts
Answer(f, res) ==
    [Frame0 EXCEPT !.pc = "done", !.op = f.op, !.result = res,
                   !.r = f.r, !.r2 = f.r2, !.login_status = f.login_status,
                   !.nUp = f.nUp, !.nLogin = f.nLogin]

\* the server has sent the handler's answer: the thread is free again
respond(t) ==
    /\ th[t].pc = "done"
    /\ th' = [th EXCEPT ![t] = Frame0]
    /\ heap' = Collect(heap, sessions, th')
    /\ UNCHANGED << config, clock, sessions, disk, sent >>

\* the session ids a caller may name
AllIds == { ToStr(i) : i \in 0..MaxClock }
ProvidedIds == { None, "" } \cup AllIds

Usernames == { << "u" >> }
Passwords == { << "p" >> }
DatabaseNames == { << "d" >> }

(***************************************************************************)
(* POST /login                                                             *)
(***************************************************************************)
LoginRequest(username, password, databaseName, remember) ==
    [username |-> username, password |-> password,
     databaseName |-> databaseName, remember |-> remember]

\* login returns or raises res; the frame keeps the request
LoginAnswer(f, res) == [f EXCEPT !.pc = "done", !.result = res]

\* login up to the request _try_login posts, for callers whose remember
\* flag is drawn from remembers
login_with(t, remembers) ==
    /\ Ready(t)
    /\ \E u \in Usernames, p \in Passwords, d \in DatabaseNames,
          remember \in remembers :
          /\ th' = [th EXCEPT ![t] =
                       [Frame0 EXCEPT !.pc = "login_wait", !.op = "login",
                                      !.req = LoginRequest(u, p, d, remember),
                                      !.nLogin = 1]]
          /\ sent' = sent \cup { HostOf(login_url(d)) }
    /\ UNCHANGED << config, clock, store >>

login(t) == login_with(t, BOOLEAN)

\* login from the upstream's answer on: the session id is read off the clock,
\* then Session() reads the clock again for created_at
login_answered_with(t, answers) ==
    /\ th[t].pc = "login_wait"
    /\ \E a \in answers :
          LET got == try_login(a)
              rq  == th[t].req
          IN  IF got.raised
              THEN /\ th' = [th EXCEPT ![t] =
                        LoginAnswer([@ EXCEPT !.login_status = a.status],
                            LoginFailed(got.status, got.detail, got.text))]
                   /\ UNCHANGED << clock, store >>
              ELSE \E t1 \in clock..MaxClock : \E t2 \in t1..MaxClock :
                      LET id == mk_session_id(t1)
                          session == Session(got.cookies, got.auth_token, t2,
                                        rq.databaseName,
                                        IF rq.remember
                                        THEN SavedCreds(rq.username,
                                                 rq.password, rq.databaseName)
                                        ELSE NoCreds)
                      IN  /\ add_session(id, session)
                          /\ clock' = t2
                          /\ th' = [th EXCEPT ![t] =
                                 LoginAnswer(
                                     [@ EXCEPT !.login_status = a.status],
                                     LoginResponse(id, got.cookies,
                                         got.auth_token, rq.remember))]
                          /\ heap' = Collect((NewObj :> session) @@ heap,
                                         sessions', th')
    /\ UNCHANGED << config, sent >>

login_answered(t) == login_answered_with(t, LoginAnswers)

\* requests raises (timeout, connection refused): nothing catches it
login_unreachable(t) ==
    /\ th[t].pc = "login_wait"
    /\ th' = [th EXCEPT ![t] = LoginAnswer(@, Unhandled("RequestException"))]
    /\ UNCHANGED << config, clock, store, sent >>

(***************************************************************************)
(* GET /session/active, DELETE /session/{id}, DELETE /sessions/clear       *)
(***************************************************************************)
\* one entry of list_sessions
SessionInfo(sid, obj) ==
    [session_id |-> sid,
     created_at |-> heap[obj].created_at,
     auto_login_enabled |-> heap[obj].creds.present,
     database |-> heap[obj].database_name]

SessionActive(sid, obj) ==
    [type |-> "SessionActive", session_id |-> sid,
     created_at |-> heap[obj].created_at,
     auto_login_enabled |-> heap[obj].creds.present,
     database |-> heap[obj].database_name]

\* a list_sessions that left out the sessions without credentials
list_sessions_auto_only ==
    LET kept == SelectSeq(sessions, LAMBDA e : heap[e.obj].creds.present)
    IN  [i \in 1..Len(kept) |-> SessionInfo(kept[i].sid, kept[i].obj)]

\* SessionManager.list_sessions
list_sessions ==
    [i \in 1..Len(sessions) |->
        SessionInfo(sessions[i].sid, sessions[i].obj)]

\* the Response of /health; the payload's time and timestamp, its
\* configuration echo and its table of endpoints are left out
HealthResponse ==
    [type        |-> "Response",
     status_code |-> 200,
     headers     |-> ("Access-Control-Allow-Origin" :> "*")
                     @@ ("Cache-Control" :>
                             "no-cache, no-store, must-revalidate")
                     @@ ("Pragma" :> "no-cache")
                     @@ ("Expires" :> "0"),
     content     |-> [ok |-> TRUE, status |-> "healthy", mcp_ready |-> TRUE,
                      sessions |-> list_sessions]]

\* GET /health
health(t) ==
    /\ Ready(t)
    /\ th' = [th EXCEPT ![t] =
                 [Frame0 EXCEPT !.pc = "done", !.op = "health",
                                !.result = HealthResponse]]
    /\ UNCHANGED << config, clock, store, sent >>

\* what session_active answers in the current state
session_active_answer ==
    LET latest == get_latest_session
    IN  IF latest.obj = 0 THEN HTTPException(404, "No active sessions")
        ELSE SessionActive(latest.sid, latest.obj)

session_active(t) ==
    /\ Ready(t)
    /\ th' = [th EXCEPT ![t] =
                 [Frame0 EXCEPT !.pc = "done", !.op = "session_active",
                                !.result = session_active_answer]]
    /\ UNCHANGED << config, clock, store, sent >>

delete_session(t) ==
    /\ Ready(t)
    /\ \E session_id \in AllIds :
          LET f == [Frame0 EXCEPT !.pc = "done", !.op = "delete_session",
                                  !.req = [session_id |-> session_id]]
          IN  IF ~Has(session_id)
              THEN /\ th' = [th EXCEPT ![t] =
                        [f EXCEPT !.result =
                            HTTPException(404, "Session not found")]]
                   /\ UNCHANGED store
              ELSE /\ remove_session(session_id)
                   /\ th' = [th EXCEPT ![t] =
                        [f EXCEPT !.result =
                            [type |-> "Message", message |-> "deleted"]]]
                   /\ heap' = Collect(heap, sessions', th')
    /\ UNCHANGED << config, clock, sent >>

clear_all_sessions(t) ==
    /\ Ready(t)
    /\ clear_all
    /\ th' = [th EXCEPT ![t] =
                 [Frame0 EXCEPT !.pc = "done", !.op = "clear_all_sessions",
                     !.result = [type |-> "Message", message |-> "cleared"]]]
    /\ heap' = Collect(heap, sessions', th')
    /\ UNCHANGED << config, clock, sent >>

(***************************************************************************)
(* The relaying endpoints: POST /call, GET /obs/byName, GET /projects/list,*)
(* GET /obs/find, GET /projects/by_obs.                                    *)
(***************************************************************************)
RelayOps ==
    { "call", "obs_by_name", "projects_list", "obs_find", "projects_by_obs" }

\* paths a caller passes to /call: p, //b/p
Paths ==
    { << "p" >>, << "/", "/", "b", "/", "p" >> }

\* queries a caller passes to /call: None, {"k": "x/y"}
Queries ==
    { NoQuery, Query(<< << << "k" >>, << "x", "/", "y" >> >> >>) }

\* Optional[str] query parameters of /projects/by_obs: absent is << >>
ObsNames == { << >>, << "n" >> }
ObsIds   == { << >>, << "7" >> }

\* the requests each endpoint is called with
Requests(o) ==
    CASE o = "call" ->
             [session_id : ProvidedIds, path : Paths, query : Queries,
              headers : { NoHeaders }]
      [] o = "projects_by_obs" ->
             [session_id : ProvidedIds, obs_name : ObsNames, obs_id : ObsIds]
      [] OTHER ->
             [session_id : ProvidedIds]

\* the rule of p6_mcp.py's /obs/find: session_id or _latest_session_id()
session_id_or_latest(session_id) ==
    IF Truthy(session_id) THEN Resolved(session_id)
    ELSE IF Truthy(get_latest_session_id)
    THEN Resolved(get_latest_session_id)
    ELSE Raised(401, "No valid session. Login and try again.")

\* the first statement of each endpoint
call_session_id(session_id) == get_session_id_or_latest(session_id)
obs_by_name_session_id(session_id) == get_session_id_or_latest(session_id)
projects_list_session_id(session_id) == get_session_id_or_latest(session_id)
obs_find_session_id(session_id) == get_session_id_or_latest(session_id)
projects_by_obs_session_id(session_id) == get_session_id_or_latest(session_id)

ResolveFor(o, session_id) ==
    CASE o = "call"            -> call_session_id(session_id)
      [] o = "obs_by_name"     -> obs_by_name_session_id(session_id)
      [] o = "projects_list"   -> projects_list_session_id(session_id)
      [] o = "obs_find"        -> obs_find_session_id(session_id)
      [] o = "projects_by_obs" -> projects_by_obs_session_id(session_id)

\* an endpoint that answered a missing session as delete_session does
MissingSession_404(o) == HTTPException(404, "Session not found")

\* the endpoint's answer when get_session finds nothing
MissingSession(o) ==
    IF o \in { "obs_find", "projects_by_obs" }
    THEN HTTPException(401, "No valid session. Login and try again.")
    ELSE HTTPException(401, "Invalid or expired session_id. Please login again.")

\* the default field lists, shortened
ObsFields  == << "Name", ",", "ObjectId" >>
ProjFields == << "Id", ",", "Name" >>

\* the project query of /projects/by_obs for OBS object id oid
ProjectsByObsUrl(oid) ==
    build_target_url(<< "/", "project" >>,
        Query(<< << << "Fields" >>, ProjFields >>,
                 << << "OrderBy" >>, << "Name" >> >>,
                 << << "Filter" >>,
                    << "OBSObjectId", "=", "'" >> \o oid \o << "'" >> >>,
                 << << "MaxObjects" >>, << "100" >> >> >>))

\* the URL an endpoint builds first
TargetUrl(o, rq) ==
    CASE o = "call" -> build_target_url(rq.path, rq.query)
      [] o = "obs_by_name" ->
            build_target_url(<< "/", "obs" >>,
                Query(<< << << "Filter" >>,
                            << "Name", "=", "'", "n", "'" >> >>,
                         << << "Fields" >>, ObsFields >>,
                         << << "OrderBy" >>, << >> >> >>))
      [] o = "projects_list" ->
            build_target_url(<< "/", "project" >>,
                Query(<< << << "Fields" >>, ProjFields >>,
                         << << "OrderBy" >>, << >> >> >>))
      [] o = "obs_find" ->
            build_target_url(<< "/", "obs" >>,
                Query(<< << << "Filter" >>,
                            << "Name", " ", "LIKE", " ", "'", "%", "q",
                               "%", "'" >> >>,
                         << << "Fields" >>, ObsFields >>,
                         << << "OrderBy" >>, << "Name" >> >>,
                         << << "MaxObjects" >>, << "50" >> >> >>))
      [] o = "projects_by_obs" ->
            IF rq.obs_id # << >> THEN ProjectsByObsUrl(rq.obs_id)
            ELSE build_target_url(<< "/", "obs" >>,
                Query(<< << << "Filter" >>,
                            << "Name", "=", "'" >> \o rq.obs_name
                                \o << "'" >> >>,
                         << << "Fields" >>, << "Name", ",", "ObjectId" >> >>,
                         << << "MaxObjects" >>, << "1" >> >> >>))

\* an endpoint from its first statement to the session id it resolves
StartWith(t, o, requests) ==
    /\ Ready(t)
    /\ \E rq \in requests :
          LET got == ResolveFor(o, rq.session_id)
              f   == [Frame0 EXCEPT !.op = o, !.req = rq]
          IN  th' = [th EXCEPT ![t] =
                  IF got.raised
                  THEN [f EXCEPT !.pc = "done", !.result =
                                     HTTPException(got.status, got.detail)]
                  ELSE [f EXCEPT !.pc = "fetch", !.ses_id = got.sid]]
    /\ UNCHANGED << config, clock, store, sent >>

Start(t, o) == StartWith(t, o, Requests(o))

call(t)            == Start(t, "call")
obs_by_name(t)     == Start(t, "obs_by_name")
projects_list(t)   == Start(t, "projects_list")
obs_find(t)        == Start(t, "obs_find")
projects_by_obs(t) == Start(t, "projects_by_obs")

\* the endpoint fetches the session and builds the request
fetch_session(t) ==
    LET f   == th[t]
        obj == get_session(f.ses_id)
    IN  /\ f.pc = "fetch"
        /\ th' = [th EXCEPT ![t] =
              IF obj = 0
              THEN [f EXCEPT !.pc = "done", !.result = MissingSession(f.op)]
              ELSE IF /\ f.op = "projects_by_obs"
                      /\ f.req.obs_id = << >>
                      /\ f.req.obs_name = << >>
              THEN Answer(f, HTTPException(400, "Provide obs_name or obs_id"))
              ELSE [f EXCEPT !.pc = "first", !.ses = obj,
                             !.req = Frame0.req,   \* not read from here on
                             !.url = TargetUrl(f.op, f.req),
                             !.headers = default_headers(heap[obj],
                                 IF f.op = "call" THEN f.req.headers
                                 ELSE NoHeaders),
                             !.stage = IF f.op # "projects_by_obs" THEN "main"
                                       ELSE IF f.req.obs_id # << >>
                                       THEN "proj" ELSE "obs"]]
        /\ UNCHANGED << config, clock, store, sent >>

(***************************************************************************)
(* _upstream_with_retry, and what each endpoint does with its result.      *)
(***************************************************************************)
\* a host check that looked for ALLOWED_HOST anywhere in the URL
host_allowed_anywhere(target) == IndexOf(target, ALLOWED_HOST) # 0

\* a relay that tried the re-login whether or not credentials were kept
has_creds_always(obj) == TRUE

\* a relay that took every error status for an expired session
is_auth_rejection_any_error(resp) == resp.status >= 400

\* a relay that re-logged in whatever the first answer was
is_auth_rejection_always(resp) == TRUE

\* a relay that handed back the first response after the retry
after_retry_first(f, resp2) == f.r

\* the host check of _upstream_with_retry; the detail of its 400 is
\* "Host not allowed", followed by the host
host_allowed(target) == HostOf(target) = ALLOWED_HOST

\* ses.creds is set
has_creds(obj) == heap[obj].creds.present

\* r.status_code != 401 does not hold
is_auth_rejection(resp) == resp.status = 401

\* the response _upstream_with_retry hands back after a rejected re-login
after_failed_relogin(f) == f.r

\* the response _upstream_with_retry hands back after the retry
after_retry(f, resp2) == resp2

\* the endpoint's frame once _upstream_with_retry has returned resp
Returned(f, resp) ==
    LET proxied == Answer(f, ProxyResponse(resp.status, resp.body))
    IN  CASE f.op \in { "call", "obs_find" } -> proxied
          [] f.op \in { "obs_by_name", "projects_list" } ->
                \* r.json() outside any try
                IF resp.body = "json_bad"
                THEN Answer(f, Unhandled("JSONDecodeError"))
                ELSE proxied
          [] f.op = "projects_by_obs" ->
                IF f.stage = "proj" THEN proxied
                ELSE IF resp.status >= 400 THEN proxied
                ELSE IF resp.body = "json_items"
                THEN [f EXCEPT !.pc = "first", !.stage = "proj",
                               !.url = ProjectsByObsUrl(<< "7" >>),
                               !.headers = default_headers(heap[f.ses],
                                                           NoHeaders),
                               !.r = NoResponse, !.r2 = NoResponse,
                               !.new_token = None, !.login_status = 0,
                               !.nUp = 0, !.nLogin = 0]
                     \* an empty list raises the 404 inside the try, an
                     \* unparsable body raises there too; the except clause
                     \* then calls HTTPException(status=502, ...), a TypeError
                ELSE Answer(f, Unhandled("TypeError"))

\* entry: the session is fetched again, the host is checked, the first
\* request goes out
first_attempt(t) ==
    LET f   == th[t]
        obj == get_session(f.ses_id)
    IN  /\ f.pc = "first"
        /\ IF obj = 0
           THEN /\ th' = [th EXCEPT ![t] = Answer(f, HTTPException(401,
                       "Invalid or expired session_id. Please login again."))]
                /\ UNCHANGED sent
           ELSE IF ~host_allowed(f.url)
           THEN /\ th' = [th EXCEPT ![t] =
                       Answer(f, HTTPException(400, "Host not allowed"))]
                /\ UNCHANGED sent
           ELSE /\ th' = [th EXCEPT ![t] =
                       [f EXCEPT !.pc = "wait1", !.ses = obj, !.nUp = 1]]
                /\ sent' = sent \cup { HostOf(f.url) }
        /\ heap' = Collect(heap, sessions, th')
        /\ UNCHANGED << config, clock, sessions, disk >>

\* the first response arrives, one of responses
first_response_with(t, responses) ==
    LET f == th[t]
    IN  /\ f.pc = "wait1"
        /\ \E resp \in responses :
              IF is_auth_rejection(resp) /\ has_creds(f.ses)
              THEN \* _try_login posts with the remembered credentials
                   /\ th' = [th EXCEPT ![t] =
                          [f EXCEPT !.pc = "relogin_wait", !.r = resp,
                                    !.nLogin = f.nLogin + 1]]
                   /\ sent' = sent \cup
                          { HostOf(login_url(
                                heap[f.ses].creds.database_name)) }
              ELSE /\ th' = [th EXCEPT ![t] =
                          Returned([f EXCEPT !.r = resp], resp)]
                   /\ UNCHANGED sent
        /\ heap' = Collect(heap, sessions, th')
        /\ UNCHANGED << config, clock, sessions, disk >>

first_response(t) == first_response_with(t, UpstreamResponses)

\* the re-login is answered with one of answers: rejected, or ses.cookies is
\* assigned
relogin_answered_with(t, answers) ==
    LET f == th[t]
    IN  /\ f.pc = "relogin_wait"
        /\ \E a \in answers :
              LET got == try_login(a)
              IN  IF got.raised
                  THEN /\ th' = [th EXCEPT ![t] =
                              Returned([f EXCEPT !.login_status = a.status],
                                       after_failed_relogin(f))]
                       /\ heap' = Collect(heap, sessions, th')
                  ELSE /\ heap' = [heap EXCEPT
                              ![f.ses].cookies = got.cookies]
                       /\ th' = [th EXCEPT ![t] =
                              [f EXCEPT !.pc = "set_token",
                                        !.login_status = a.status,
                                        !.new_token = got.auth_token]]
        /\ UNCHANGED << config, clock, sessions, disk, sent >>

relogin_answered(t) == relogin_answered_with(t, LoginAnswers)

\* a retry that put the refreshed session back under its id and saved
second_attempt_storing(t) ==
    LET f == th[t]
    IN  /\ f.pc = "set_token"
        /\ heap' = [heap EXCEPT ![f.ses].auth_token = f.new_token]
        /\ sessions' = DictSet(sessions, f.ses_id, f.ses)
        /\ disk' = save_to_disk(disk, sessions', heap', "written")
        /\ th' = [th EXCEPT ![t] =
              [f EXCEPT !.pc = "wait2", !.nUp = f.nUp + 1,
                        !.headers = default_headers(heap'[f.ses],
                                        retry_extra(f.headers))]]
        /\ sent' = sent \cup { HostOf(f.url) }
        /\ UNCHANGED << config, clock >>

\* a retry that wrote the new token into every session of the store
second_attempt_every_session(t) ==
    LET f == th[t]
    IN  /\ f.pc = "set_token"
        /\ heap' = [o \in DOMAIN heap |->
                       [heap[o] EXCEPT !.auth_token = f.new_token]]
        /\ th' = [th EXCEPT ![t] =
              [f EXCEPT !.pc = "wait2", !.nUp = f.nUp + 1,
                        !.headers = default_headers(heap'[f.ses],
                                        retry_extra(f.headers))]]
        /\ sent' = sent \cup { HostOf(f.url) }
        /\ UNCHANGED << config, clock, sessions, disk >>

\* ses.auth_token is assigned, the headers are rebuilt, the retry goes out
second_attempt(t) ==
    LET f == th[t]
    IN  /\ f.pc = "set_token"
        /\ heap' = [heap EXCEPT ![f.ses].auth_token = f.new_token]
        /\ th' = [th EXCEPT ![t] =
              [f EXCEPT !.pc = "wait2", !.nUp = f.nUp + 1,
                        !.headers = default_headers(heap'[f.ses],
                                        retry_extra(f.headers))]]
        /\ sent' = sent \cup { HostOf(f.url) }
        /\ UNCHANGED << config, clock, sessions, disk >>

\* the response to the retry arrives, one of responses
second_response_with(t, responses) ==
    LET f == th[t]
    IN  /\ f.pc = "wait2"
        /\ \E resp \in responses :
              th' = [th EXCEPT ![t] =
                  Returned([f EXCEPT !.r2 = resp], after_retry(f, resp))]
        /\ heap' = Collect(heap, sessions, th')
        /\ UNCHANGED << config, clock, sessions, disk, sent >>

second_response(t) == second_response_with(t, UpstreamResponses)

\* requests raises during a relay (timeout, connection refused): only
\* HTTPException is caught, so nothing catches it
upstream_unreachable(t) ==
    /\ th[t].pc \in { "wait1", "relogin_wait", "wait2" }
    /\ th' = [th EXCEPT ![t] = Answer(@, Unhandled("RequestException"))]
    /\ heap' = Collect(heap, sessions, th')
    /\ UNCHANGED << config, clock, sessions, disk, sent >>

(***************************************************************************)
(* The system.                                                             *)
(***************************************************************************)
\* the process has started: an empty store (no snapshot file), n idle threads
Started(n) ==
    /\ clock = 0
    /\ sessions = << >>
    /\ heap = << >>
    /\ disk = << >>
    /\ th = [t \in 1..n |-> Frame0]
    /\ sent = {}

\* one worker thread; the auto-session toggles take every value, the base
\* URL is s://a/r/ and ALLOWED_HOST is left unset
Init ==
    /\ P6_BASE_URL = << "s", ":", "/", "/", "a", "/", "r", "/" >>
    /\ ALLOWED_HOST_ENV = [set |-> FALSE, value |-> << >>]
    /\ AUTO_SESSION_ENABLED \in BOOLEAN
    /\ AUTO_SESSION_STRICT_MODE \in BOOLEAN
    /\ P6_VERSION = ""
    /\ Started(1)

\* the server with its session endpoints and POST /call
Next ==
    \E t \in Threads :
        \/ login(t)
        \/ login_answered(t)
        \/ login_unreachable(t)
        \/ health(t)
        \/ session_active(t)
        \/ delete_session(t)
        \/ clear_all_sessions(t)
        \/ call(t)
        \/ fetch_session(t)
        \/ first_attempt(t)
        \/ first_response(t)
        \/ relogin_answered(t)
        \/ second_attempt(t)
        \/ second_response(t)
        \/ upstream_unreachable(t)
        \/ respond(t)

Spec == Init /\ [][Next]_vars

\* the server with every endpoint that relays
NextEndpoints ==
    \/ Next
    \/ \E t \in Threads :
          \/ obs_by_name(t)
          \/ projects_list(t)
          \/ obs_find(t)
          \/ projects_by_obs(t)

SpecEndpoints == Init /\ [][NextEndpoints]_vars

\* one worker thread; the base URL and ALLOWED_HOST take every value, the
\* auto-session toggles are left at their defaults
InitHosts ==
    /\ P6_BASE_URL \in BaseUrls
    /\ ALLOWED_HOST_ENV \in AllowedHostEnvs
    /\ AUTO_SESSION_ENABLED = TRUE
    /\ AUTO_SESSION_STRICT_MODE = TRUE
    /\ P6_VERSION = ""
    /\ Started(1)

SpecHosts == InitHosts /\ [][Next]_vars

\* two worker threads serve callers at once, after a caller has logged in
\* with remember set and got session 0; the upstream answers relayed requests
\* with 200 or 401, and /call is asked for path p on session 0 or on no
\* session in particular
ThreadRequests ==
    { rq \in Requests("call") : /\ rq.session_id \in { None, "0" }
                                /\ rq.path = << "p" >>
                                /\ rq.query = NoQuery }
ThreadResponses ==
    { resp \in UpstreamResponses : /\ resp.status \in { 200, 401 }
                                   /\ resp.body = "text" }

\* the state after login has answered its first caller: session 0 holds the
\* cookies and the token of the upstream's first answer
LoggedIn(n) ==
    /\ clock = 0
    /\ sessions = << [sid |-> mk_session_id(0), obj |-> 1] >>
    /\ heap = (1 :> Session("c1", "t1", 0, << "d" >>,
                       SavedCreds(<< "u" >>, << "p" >>, << "d" >>)))
    /\ disk = Snapshot(sessions, heap)
    /\ th = [t \in 1..n |-> Frame0]
    /\ sent = { HostOf(login_url(<< "d" >>)) }

InitThreads ==
    /\ P6_BASE_URL = << "s", ":", "/", "/", "a", "/", "r" >>
    /\ ALLOWED_HOST_ENV = [set |-> FALSE, value |-> << >>]
    /\ AUTO_SESSION_ENABLED = TRUE
    /\ AUTO_SESSION_STRICT_MODE = TRUE
    /\ P6_VERSION = ""
    /\ LoggedIn(2)

NextThreads ==
    \E t \in Threads :
        \/ delete_session(t)
        \/ StartWith(t, "call", ThreadRequests)
        \/ fetch_session(t)
        \/ first_attempt(t)
        \/ first_response_with(t, ThreadResponses)
        \/ relogin_answered(t)
        \/ second_attempt(t)
        \/ second_response_with(t, ThreadResponses)
        \/ respond(t)

SpecThreads == InitThreads /\ [][NextThreads]_vars

\* one worker thread serves /call on session 0 after a caller has logged in
\* with remember set: P6_VERSION is configured or not, the caller passes
\* headers of its own (a Cookie, a cookie, an Accept, an X-Trace, or none), and
\* the re-login is answered with new cookies and a token, with new cookies
\* and no token, or with a rejection
CallerHeaders ==
    { h \in [HeaderNames -> { None, "x" }] :
          h["Version"] = None /\ h["AuthToken"] = None }

HeaderRequests ==
    [session_id : { "0" }, path : { << "p" >> }, query : { NoQuery },
     headers : CallerHeaders]

HeaderAnswers ==
    { a \in LoginAnswers : a.cookies # "c1" }
        \cup { [status |-> 200, cookies |-> "c2", header |-> None,
                json |-> None, text |-> << >>] }

InitHeaders ==
    /\ P6_BASE_URL = << "s", ":", "/", "/", "a", "/", "r" >>
    /\ ALLOWED_HOST_ENV = [set |-> FALSE, value |-> << >>]
    /\ AUTO_SESSION_ENABLED = TRUE
    /\ AUTO_SESSION_STRICT_MODE = TRUE
    /\ P6_VERSION \in { "", "v1" }
    /\ LoggedIn(1)

NextHeaders ==
    \E t \in Threads :
        \/ StartWith(t, "call", HeaderRequests)
        \/ fetch_session(t)
        \/ first_attempt(t)
        \/ first_response_with(t, ThreadResponses)
        \/ relogin_answered_with(t, HeaderAnswers)
        \/ second_attempt(t)
        \/ second_response_with(t, ThreadResponses)
        \/ respond(t)

SpecHeaders == InitHeaders /\ [][NextHeaders]_vars

\* two worker threads, the first serving the deletions, the second the
\* logins (accepted, with remember set), /session/active and /call on an id
\* or on none; a deletion may complete at any point of a relay
DeletionRequests ==
    { rq \in Requests("call") : /\ rq.session_id \in { None } \cup AllIds
                                /\ rq.path = << "p" >>
                                /\ rq.query = NoQuery }

InitDeletions ==
    /\ P6_BASE_URL = << "s", ":", "/", "/", "a", "/", "r" >>
    /\ ALLOWED_HOST_ENV = [set |-> FALSE, value |-> << >>]
    /\ AUTO_SESSION_ENABLED = TRUE
    /\ AUTO_SESSION_STRICT_MODE = TRUE
    /\ P6_VERSION = ""
    /\ Started(2)

NextDeletions ==
    \/ delete_session(1)
    \/ clear_all_sessions(1)
    \/ respond(1)
    \/ login_with(2, { TRUE })
    \/ login_answered_with(2, { a \in LoginAnswers : a.status = 200 })
    \/ session_active(2)
    \/ StartWith(2, "call", DeletionRequests)
    \/ fetch_session(2)
    \/ first_attempt(2)
    \/ first_response_with(2, ThreadResponses)
    \/ relogin_answered(2)
    \/ second_attempt(2)
    \/ second_response_with(2, ThreadResponses)
    \/ respond(2)

SpecDeletions == InitDeletions /\ [][NextDeletions]_vars

\* one step of the relay thread t has under way, also the one in which the
\* request it waits for ends without an answer
RelayStep(t) ==
    \/ fetch_session(t)
    \/ first_attempt(t)
    \/ first_response_with(t, ThreadResponses)
    \/ relogin_answered(t)
    \/ second_attempt(t)
    \/ second_response_with(t, ThreadResponses)
    \/ upstream_unreachable(t)

NextRelays ==
    \E t \in Threads :
        \/ delete_session(t)
        \/ StartWith(t, "call", ThreadRequests)
        \/ fetch_session(t)
        \/ first_attempt(t)
        \/ first_response_with(t, ThreadResponses)
        \/ relogin_answered(t)
        \/ second_attempt(t)
        \/ second_response_with(t, ThreadResponses)
        \/ upstream_unreachable(t)
        \/ respond(t)

\* two worker threads that keep running: every outbound request carries
\* timeout=REQUEST_TIMEOUT, so each wait ends, with an answer or with an
\* exception, and no step of a relay waits for another thread
SpecRelays ==
    /\ InitThreads
    /\ [][NextRelays]_vars
    /\ \A t \in 1..2 : WF_vars(RelayStep(t))

(***************************************************************************)
(* The SessionManager on its own: a process that starts over a store file  *)
(* of any content and calls the methods of the SessionManager, with writes *)
(* of the file that may fail.                                              *)
(***************************************************************************)
StoreIds == { mk_session_id(0), mk_session_id(1) }
StoreTimes == { 0, 1 }

\* the Session objects handed to add_session: with credentials and a token,
\* or with neither
StoreSessions ==
    { Session("c1", "t1", ts, << "d" >>,
              SavedCreds(<< "u" >>, << "p" >>, << "d" >>)) : ts \in StoreTimes }
    \cup { Session("c2", None, ts, << "d" >>, NoCreds) : ts \in StoreTimes }

\* the members a store file is made of: what _save_to_disk writes for a
\* session, or an object without the cookies field
StoreEntries ==
    { [sid |-> sid, data |-> session_dict(x)] :
          sid \in StoreIds, x \in StoreSessions }
    \cup { [sid |-> sid, data |-> [auth_token |-> "t1"]] : sid \in StoreIds }

\* the files the process may find at start
StoreFiles ==
    { << >>, Garbage }
    \cup { << e >> : e \in StoreEntries }
    \cup { << e[1], e[2] >> :
             e \in { x \in StoreEntries \X StoreEntries : x[1].sid # x[2].sid } }

\* what a method of the SessionManager leaves in the caller's frame: it
\* returns None; wrote tells how its write of the file ended, "none" when it
\* did not write
StoreCall(method, args, wrote) ==
    [Frame0 EXCEPT !.pc = "done", !.op = method, !.req = args,
                   !.result = [type |-> "Returned", wrote |-> wrote]]

\* session_manager = SessionManager(): the module is loaded (again)
SessionManager_init(t) ==
    /\ Ready(t)
    /\ sessions' = load_from_disk(disk).sessions
    /\ heap' = load_from_disk(disk).heap
    /\ th' = [u \in Threads |->
                IF u = t
                THEN StoreCall("SessionManager", [session_id |-> None], "none")
                ELSE Frame0]
    /\ UNCHANGED << config, clock, disk, sent >>

store_add_session(t) ==
    /\ Ready(t)
    /\ \E sid \in StoreIds, session \in StoreSessions,
          outcome \in DiskOutcomes :
          /\ add_session_on(sid, session, outcome)
          /\ th' = [th EXCEPT ![t] =
                 StoreCall("add_session",
                           [session_id |-> sid, session |-> session], outcome)]
          /\ heap' = Collect((NewObj :> session) @@ heap, sessions', th')
    /\ UNCHANGED << config, clock, sent >>

store_remove_session(t) ==
    /\ Ready(t)
    /\ \E sid \in StoreIds, outcome \in DiskOutcomes :
          /\ remove_session_on(sid, outcome)
          /\ th' = [th EXCEPT ![t] =
                 StoreCall("remove_session", [session_id |-> sid],
                           IF Has(sid) THEN outcome ELSE "none")]
          /\ heap' = Collect(heap, sessions', th')
    /\ UNCHANGED << config, clock, sent >>

store_clear_all(t) ==
    /\ Ready(t)
    /\ \E outcome \in DiskOutcomes :
          /\ clear_all_on(outcome)
          /\ th' = [th EXCEPT ![t] =
                 StoreCall("clear_all", [session_id |-> None], outcome)]
          /\ heap' = Collect(heap, sessions', th')
    /\ UNCHANGED << config, clock, sent >>

InitStore ==
    /\ P6_BASE_URL = << "s", ":", "/", "/", "a", "/", "r" >>
    /\ ALLOWED_HOST_ENV = [set |-> FALSE, value |-> << >>]
    /\ AUTO_SESSION_ENABLED = TRUE
    /\ AUTO_SESSION_STRICT_MODE = TRUE
    /\ P6_VERSION = ""
    /\ clock = 0
    /\ disk \in StoreFiles
    /\ sessions = load_from_disk(disk).sessions
    /\ heap = load_from_disk(disk).heap
    /\ th = [t \in 1..1 |-> Frame0]
    /\ sent = {}

NextStore ==
    \E t \in Threads :
        \/ SessionManager_init(t)
        \/ store_add_session(t)
        \/ store_remove_session(t)
        \/ store_clear_all(t)
        \/ respond(t)

SpecStore == InitStore /\ [][NextStore]_vars

(***************************************************************************)
(* The single retry of the relay.                                          *)
(***************************************************************************)
\* C1: a call on a session with remembered credentials, whose two upstream
\* answers are both 401 and whose re-login in between succeeded, has made
\* one login request and two upstream requests and answers with the second
\* response; no relay ever makes a third upstream request or a second login
C1_OneRetryOnly ==
    \A t \in Threads :
        LET f == th[t]
        IN  /\ f.nUp <= 2
            /\ f.op \in RelayOps => f.nLogin <= 1
            /\ f.pc = "set_token" => f.nUp = 1 /\ f.nLogin = 1
            /\ f.pc = "wait2" => f.nUp = 2 /\ f.nLogin = 1
            /\ ( /\ f.pc = "done" /\ f.op = "call"
                 /\ f.r.status = 401 /\ f.r2.status = 401 )
               => /\ f.login_status \in 1..399
                  /\ f.nUp = 2 /\ f.nLogin = 1
                  /\ f.result = ProxyResponse(401, f.r2.body)

\* a call answered with the second 401, whose body differs from the first's
C1_Reached ==
    \E t \in Threads :
        /\ th[t].pc = "done" /\ th[t].op = "call"
        /\ th[t].r.status = 401 /\ th[t].r2.status = 401
        /\ th[t].r.body # th[t].r2.body
        /\ th[t].login_status = 200
        /\ th[t].nUp = 2 /\ th[t].nLogin = 1
        /\ th[t].result = ProxyResponse(401, th[t].r2.body)

\* C2: when the first answer to a call on a session without remembered
\* credentials is 401, the call ends in that step with the 401 and its body,
\* having made one upstream request and no login request
C2_NoCredsNoRetry ==
    [][ \A t \in Threads :
          ( /\ th[t].pc = "wait1" /\ th[t].op = "call"
            /\ ~heap[th[t].ses].creds.present
            /\ th'[t].r.status = 401 )
          => /\ th'[t].pc = "done"
             /\ th'[t].result = ProxyResponse(401, th'[t].r.body)
             /\ th'[t].nUp = 1 /\ th'[t].nLogin = 0
             /\ th'[t].r2 = NoResponse
             /\ sent' = sent ]_vars

\* a call answered with the upstream's 401 without any login request
C2_Reached ==
    \E t \in Threads :
        /\ th[t].pc = "done" /\ th[t].op = "call"
        /\ th[t].r.status = 401
        /\ th[t].nUp = 1 /\ th[t].nLogin = 0
        /\ th[t].result = ProxyResponse(401, th[t].r.body)

\* C3: when the first answer to a call has a status other than 401, the call
\* ends in that step with that status and body, no login request and no
\* second upstream request, and every session keeps its cookies and token
C3_PassThrough ==
    [][ \A t \in Threads :
          ( /\ th[t].pc = "wait1" /\ th[t].op = "call"
            /\ th'[t].r # NoResponse
            /\ th'[t].r.status # 401 )
          => /\ th'[t].pc = "done"
             /\ th'[t].result = ProxyResponse(th'[t].r.status, th'[t].r.body)
             /\ th'[t].nUp = 1 /\ th'[t].nLogin = 0
             /\ th'[t].r2 = NoResponse
             /\ sent' = sent
             /\ sessions' = sessions /\ disk' = disk
             /\ \A o \in DOMAIN heap' :
                   o \in DOMAIN heap /\ heap'[o] = heap[o] ]_vars

\* a call on a session with remembered credentials answered with the
\* upstream's 500
C3_Reached ==
    \E t \in Threads :
        /\ th[t].pc = "done" /\ th[t].op = "call"
        /\ th[t].r.status = 500
        /\ th[t].nUp = 1 /\ th[t].nLogin = 0
        /\ th[t].result = ProxyResponse(500, th[t].r.body)
        /\ \E i \in 1..Len(sessions) : heap[sessions[i].obj].creds.present

\* C4: when the re-login of a call is answered with a status of 400 or more,
\* the call ends in that step with the first response (the 401), no second
\* upstream request, and every session keeps its cookies and token
C4_RejectedRelogin ==
    [][ \A t \in Threads :
          ( /\ th[t].pc = "relogin_wait" /\ th[t].op = "call"
            /\ th'[t].login_status >= 400 )
          => /\ th[t].r.status = 401
             /\ heap[th[t].ses].creds.present
             /\ th'[t].pc = "done"
             /\ th'[t].result = ProxyResponse(401, th[t].r.body)
             /\ th'[t].nUp = 1 /\ th'[t].nLogin = 1
             /\ th'[t].r2 = NoResponse
             /\ sent' = sent
             /\ sessions' = sessions /\ disk' = disk
             /\ \A o \in DOMAIN heap' :
                   o \in DOMAIN heap /\ heap'[o] = heap[o] ]_vars

\* a call answered with the first 401 after its re-login was answered 401
C4_Reached ==
    \E t \in Threads :
        /\ th[t].pc = "done" /\ th[t].op = "call"
        /\ th[t].r.status = 401
        /\ th[t].login_status = 401
        /\ th[t].nUp = 1 /\ th[t].nLogin = 1
        /\ th[t].result = ProxyResponse(401, th[t].r.body)

(***************************************************************************)
(* The allowed host.                                                       *)
(***************************************************************************)
\* C5: a relay that enters _upstream_with_retry with its session in the store
\* and a target URL whose host is not the allowed host ends in that step with
\* 400 "Host not allowed", no upstream request and no login request made; a
\* target URL whose host is the allowed host passes to the first request
C5_HostCheck ==
    [][ \A t \in Threads :
          ( /\ th[t].pc = "first" /\ th'[t] # th[t]
            /\ Has(th[t].ses_id) )
          => IF HostOf(th[t].url) # ALLOWED_HOST
             THEN /\ th'[t].pc = "done"
                  /\ th'[t].result = HTTPException(400, "Host not allowed")
                  /\ th'[t].nUp = 0 /\ th'[t].nLogin = 0
                  /\ sent' = sent
             ELSE /\ th'[t].pc = "wait1"
                  /\ th'[t].nUp = 1
                  /\ sent' = sent \cup { ALLOWED_HOST } ]_vars

\* a call rejected for its host although ALLOWED_HOST occurs in its URL
C5_Reached ==
    \E t \in Threads :
        /\ th[t].pc = "done" /\ th[t].op = "call"
        /\ th[t].result = HTTPException(400, "Host not allowed")
        /\ th[t].nUp = 0 /\ th[t].nLogin = 0
        /\ IndexOf(P6_BASE_URL, ALLOWED_HOST) # 0

\* C6: every host a request has gone out to (first attempts, retries, logins
\* of callers, re-logins) is the allowed host
C6_OnlyAllowedHost ==
    \A h \in sent : h = ALLOWED_HOST

(***************************************************************************)
(* The resolution of the session.                                          *)
(***************************************************************************)
\* C7: with auto-session enabled and a session in the store, a relaying
\* endpoint called without session_id goes on with the session id that
\* session_active answers with in the same store
C7_SameAsActive ==
    [][ \A t \in Threads :
          ( /\ th[t].pc = "idle"
            /\ th'[t].op \in RelayOps
            /\ th'[t].req.session_id = None
            /\ AUTO_SESSION_ENABLED
            /\ sessions # << >> )
          => /\ th'[t].pc = "fetch"
             /\ session_active_answer.type = "SessionActive"
             /\ th'[t].ses_id = session_active_answer.session_id
             /\ store' = store ]_vars

\* a call without session_id resolved to the later of two sessions
C7_Reached ==
    \E t \in Threads :
        /\ th[t].pc = "fetch" /\ th[t].op = "call"
        /\ th[t].req.session_id = None
        /\ AUTO_SESSION_ENABLED
        /\ Len(sessions) = 2
        /\ th[t].ses_id = sessions[2].sid
        /\ th[t].ses_id = session_active_answer.session_id

\* C8: a relaying endpoint called without session_id ends at once with 401,
\* no request made and the store as it was, when auto-session is disabled
\* or the store is empty
C8_NoSessionNoRelay ==
    [][ \A t \in Threads :
          ( /\ th[t].pc = "idle"
            /\ th'[t].op \in RelayOps
            /\ th'[t].req.session_id = None
            /\ (~AUTO_SESSION_ENABLED \/ sessions = << >>) )
          => /\ th'[t].pc = "done"
             /\ th'[t].result.type = "HTTPException"
             /\ th'[t].result.status = 401
             /\ th'[t].nUp = 0 /\ th'[t].nLogin = 0
             /\ sent' = sent
             /\ store' = store ]_vars

\* a call without session_id refused while the store holds a session
C8_Reached ==
    \E t \in Threads :
        /\ th[t].pc = "done" /\ th[t].op = "call"
        /\ th[t].req.session_id = None
        /\ ~AUTO_SESSION_ENABLED
        /\ sessions # << >>
        /\ th[t].result = HTTPException(401,
               "session_id required (AUTO_SESSION_ENABLED is disabled)")
        /\ th[t].nUp = 0

\* C9: a relaying endpoint called with a session_id, whatever string it is,
\* goes on with exactly that id: it is neither refused by the resolver nor
\* replaced by the latest session
C9_ExplicitIdKept ==
    [][ \A t \in Threads :
          ( /\ th[t].pc = "idle"
            /\ th'[t].op \in RelayOps
            /\ th'[t].req.session_id # None )
          => /\ th'[t].pc = "fetch"
             /\ th'[t].ses_id = th'[t].req.session_id ]_vars

\* C10: in every store and under every setting of the toggles, the five
\* relaying endpoints select the same session for the same session_id
\* argument, or all of them answer 401
C10_SameResolution ==
    \A provided \in ProvidedIds :
        LET lost(o, got) == IF got.raised THEN got.status
                            ELSE IF get_session(got.sid) = 0
                            THEN MissingSession(o).status
                            ELSE 0
            selected(o) == LET got == ResolveFor(o, provided)
                           IN  << got.raised, got.sid, lost(o, got) >>
        IN  \E sel \in { selected("call") } :
               /\ sel[3] \in { 0, 401 }
               /\ \A o \in RelayOps : selected(o) = sel

\* obs_find called without session_id goes on with the later of two sessions
C10_Reached ==
    \E t \in Threads :
        /\ th[t].pc = "fetch" /\ th[t].op = "obs_find"
        /\ th[t].req.session_id = None
        /\ Len(sessions) = 2
        /\ th[t].ses_id = sessions[2].sid
        /\ call_session_id(None) = Resolved(th[t].ses_id)

(***************************************************************************)
(* Sessions that have gone.                                                *)
(***************************************************************************)
\* C11: a relay whose resolved session id is not in the store when the
\* endpoint fetches it, or when _upstream_with_retry fetches it again, ends in
\* that step with a 401, no upstream request and no login request made,
\* whether the id never was in the store or another thread deleted it since
C11_MissingSession ==
    [][ \A t \in Threads :
          ( /\ th[t].pc \in { "fetch", "first" } /\ th'[t] # th[t]
            /\ ~Has(th[t].ses_id) )
          => /\ th'[t].pc = "done"
             /\ th'[t].result.type = "HTTPException"
             /\ th'[t].result.status = 401
             /\ th'[t].nUp = 0 /\ th'[t].nLogin = 0
             /\ sent' = sent
             /\ sessions' = sessions /\ disk' = disk
             /\ \A o \in DOMAIN heap' :
                   o \in DOMAIN heap /\ heap'[o] = heap[o] ]_vars

\* a call without session_id answered 401 for a missing session: the latest
\* session it had resolved to was deleted by the other thread before the fetch
C11_Reached ==
    \E t \in Threads :
        /\ th[t].pc = "done" /\ th[t].op = "call"
        /\ th[t].req.session_id = None
        /\ th[t].ses_id = "0" /\ ~Has("0")
        /\ th[t].result = MissingSession("call")
        /\ th[t].nUp = 0 /\ th[t].nLogin = 0

(***************************************************************************)
(* The session store.                                                      *)
(***************************************************************************)
\* C12: a login that succeeds answers with a session id that no session in
\* the store has, and adds one session to the store without replacing or
\* removing any
C12_FreshSessionId ==
    [][ \A t \in Threads :
          ( /\ th[t].pc = "login_wait"
            /\ th'[t].pc = "done"
            /\ th'[t].result.type = "LoginResponse" )
          => /\ ~Has(th'[t].result.session_id)
             /\ Len(sessions') = Len(sessions) + 1
             /\ \A i \in 1..Len(sessions) : sessions'[i] = sessions[i] ]_vars

\* C13: when several sessions of the store share the greatest created_at,
\* get_latest_session_id returns the one of them that comes last in the dict
\* (the one inserted last)
C13_TieLastInserted ==
    sessions # << >> =>
        LET at(i) == heap[sessions[i].obj].created_at
            top   == { i \in 1..Len(sessions) :
                          \A k \in 1..Len(sessions) : at(k) <= at(i) }
            last  == CHOOSE i \in top : \A k \in top : k <= i
        IN  get_latest_session_id = sessions[last].sid

\* C14: when the sessions of the store have pairwise distinct created_at,
\* get_latest_session_id returns the one with the greatest created_at,
\* wherever it stands in the dict, after a load of the store file as well
C14_LatestByTimestamp ==
    LET at(i) == heap[sessions[i].obj].created_at
    IN  ( /\ sessions # << >>
          /\ \A i \in 1..Len(sessions), k \in 1..Len(sessions) :
                i # k => at(i) # at(k) )
        => \E i \in 1..Len(sessions) :
              /\ \A k \in 1..Len(sessions) : at(k) <= at(i)
              /\ get_latest_session_id = sessions[i].sid
              /\ get_latest_session = sessions[i]

\* a store just loaded from its file in which the older session comes last
C14_Reached ==
    /\ th[1].pc = "done" /\ th[1].op = "SessionManager"
    /\ Len(sessions) = 2
    /\ heap[sessions[1].obj].created_at > heap[sessions[2].obj].created_at
    /\ get_latest_session_id = sessions[1].sid

\* C15: remove_session returns without raising and leaves the id out of the
\* store; for an id that is not in the store it leaves the dict, the objects
\* and the file as they were (so a second remove_session of an id changes
\* nothing); clear_all on an empty store returns and leaves it empty
C15_RemoveIdempotent ==
    [][ \A t \in Threads :
          /\ ( th[t].pc = "idle" /\ th'[t].op = "remove_session" )
             => /\ th'[t].result.type = "Returned"
                /\ \A i \in 1..Len(sessions') :
                      sessions'[i].sid # th'[t].req.session_id
                /\ ~Has(th'[t].req.session_id)
                   => /\ sessions' = sessions
                      /\ heap' = heap
                      /\ disk' = disk
          /\ ( /\ th[t].pc = "idle" /\ th'[t].op = "clear_all"
               /\ sessions = << >> )
             => /\ th'[t].result.type = "Returned"
                /\ sessions' = << >>
                /\ heap' = heap ]_vars

\* remove_session has returned for an id that was not in the store, the store
\* holding another session and a file that is not its snapshot
C15_Reached ==
    /\ th[1].pc = "done" /\ th[1].op = "remove_session"
    /\ th[1].result.wrote = "none"
    /\ ~Has(th[1].req.session_id)
    /\ sessions # << >>
    /\ disk # Snapshot(sessions, heap)

\* C16: whenever no handler is under way, the store file is the snapshot of
\* the dict and its Session objects (writes of the file not failing)
C16_SnapshotCurrent ==
    (\A t \in Threads : th[t].pc \in { "idle", "done" })
        => disk = Snapshot(sessions, heap)

\* C17: a SessionManager constructed over the file that the last mutation
\* of the store has written holds the session ids the store held, in the same
\* order, each with the cookies, token, created_at, database name and
\* credentials it had
C17_RoundTrip ==
    [][ \A t \in Threads :
          ( /\ th[t].pc = "idle" /\ th'[t].op = "SessionManager"
            /\ disk = Snapshot(sessions, heap) )
          => /\ th'[t].result.type = "Returned"
             /\ Len(sessions') = Len(sessions)
             /\ \A i \in 1..Len(sessions) :
                   /\ sessions'[i].sid = sessions[i].sid
                   /\ heap'[sessions'[i].obj] = heap[sessions[i].obj] ]_vars

\* a store reloaded from its file: two sessions, one with remembered
\* credentials and a token, the other with neither
C17_Reached ==
    /\ th[1].pc = "done" /\ th[1].op = "SessionManager"
    /\ disk = Snapshot(sessions, heap)
    /\ Len(sessions) = 2
    /\ heap[sessions[1].obj].creds.present
    /\ heap[sessions[1].obj].auth_token = "t1"
    /\ ~heap[sessions[2].obj].creds.present
    /\ heap[sessions[2].obj].auth_token = None
    /\ heap[sessions[1].obj].created_at # heap[sessions[2].obj].created_at

\* C18: a SessionManager constructed over a file that cannot be read as
\* sessions (not JSON, or with a malformed entry after well-formed ones) does
\* not raise and holds no session
C18_CorruptLoadsEmpty ==
    [][ \A t \in Threads :
          ( /\ th[t].pc = "idle" /\ th'[t].op = "SessionManager"
            /\ \/ ~IsJson(disk)
               \/ \E i \in 1..Len(disk) : ~WellFormed(disk[i].data) )
          => /\ th'[t].result.type = "Returned"
             /\ sessions' = << >> ]_vars

\* C19 as stated: when the write of the file fails in add_session,
\* remove_session or clear_all, the call returns, the dict holds what it would
\* hold had the write succeeded, and the file is what it was before the call
C19_WriteFailureStale ==
    [][ \A t \in Threads :
          ( /\ th[t].pc = "idle" /\ th'[t].pc = "done"
            /\ th'[t].op \in { "add_session", "remove_session", "clear_all" }
            /\ th'[t].result.wrote \in { "refused", "torn" } )
          => LET sid == th'[t].req.session_id
                 At(d, k) == CHOOSE i \in 1..Len(d) : d[i].sid = k
                 In(d, k) == \E i \in 1..Len(d) : d[i].sid = k
                 Kept(k) == /\ In(sessions', k) <=> In(sessions, k)
                            /\ In(sessions, k) =>
                                 heap'[sessions'[At(sessions', k)].obj]
                                     = heap[sessions[At(sessions, k)].obj]
             IN  /\ th'[t].result.type = "Returned"
                 /\ th'[t].op = "add_session" =>
                      /\ In(sessions', sid)
                      /\ heap'[sessions'[At(sessions', sid)].obj]
                             = th'[t].req.session
                      /\ \A k \in StoreIds \ { sid } : Kept(k)
                 /\ th'[t].op = "remove_session" =>
                      /\ ~In(sessions', sid)
                      /\ \A k \in StoreIds \ { sid } : Kept(k)
                 /\ th'[t].op = "clear_all" => sessions' = << >>
                 /\ disk' = disk ]_vars

\* C19: when the write of the file fails in add_session, remove_session or
\* clear_all, the call returns and the dict holds what it would hold had the
\* write succeeded; the file is what it was before the call, or, the write
\* having failed after open(..., 'w') truncated it, not readable as JSON
C19_WriteFailureMemory ==
    [][ \A t \in Threads :
          ( /\ th[t].pc = "idle" /\ th'[t].pc = "done"
            /\ th'[t].op \in { "add_session", "remove_session", "clear_all" }
            /\ th'[t].result.wrote \in { "refused", "torn" } )
          => LET sid == th'[t].req.session_id
                 At(d, k) == CHOOSE i \in 1..Len(d) : d[i].sid = k
                 In(d, k) == \E i \in 1..Len(d) : d[i].sid = k
                 Kept(k) == /\ In(sessions', k) <=> In(sessions, k)
                            /\ In(sessions, k) =>
                                 heap'[sessions'[At(sessions', k)].obj]
                                     = heap[sessions[At(sessions, k)].obj]
             IN  /\ th'[t].result.type = "Returned"
                 /\ th'[t].op = "add_session" =>
                      /\ In(sessions', sid)
                      /\ heap'[sessions'[At(sessions', sid)].obj]
                             = th'[t].req.session
                      /\ \A k \in StoreIds \ { sid } : Kept(k)
                 /\ th'[t].op = "remove_session" =>
                      /\ ~In(sessions', sid)
                      /\ \A k \in StoreIds \ { sid } : Kept(k)
                 /\ th'[t].op = "clear_all" => sessions' = << >>
                 /\ disk' = disk \/ ~IsJson(disk') ]_vars

\* an add_session whose write failed midway: the session is in the dict and
\* the file is unreadable
C19_Reached ==
    /\ th[1].pc = "done" /\ th[1].op = "add_session"
    /\ th[1].result.wrote = "torn"
    /\ Has(th[1].req.session_id)
    /\ heap[get_session(th[1].req.session_id)] = th[1].req.session
    /\ ~IsJson(disk)

\* C20: the Cookie and the AuthToken a relay is about to send are the cookies
\* and the token of one and the same login answer, never the cookies of a
\* re-login with the token the session had before it
C20_CookieTokenPair ==
    \A t \in Threads :
        th[t].headers # NoHeaders =>
            \E a \in LoginAnswers :
                /\ ~try_login(a).raised
                /\ th[t].headers.Cookie = try_login(a).cookies
                /\ th[t].headers.AuthToken = try_login(a).auth_token

\* C21: once no relay is under way, the cookies and the token every session
\* holds are those of one and the same login answer, also after two relays
\* have re-authenticated the session at the same time
C21_SerializedReauth ==
    (\A t \in Threads : th[t].pc \in { "idle", "done" })
        => \A i \in 1..Len(sessions) :
              \E a \in LoginAnswers :
                 /\ ~try_login(a).raised
                 /\ heap[sessions[i].obj].cookies = try_login(a).cookies
                 /\ heap[sessions[i].obj].auth_token = try_login(a).auth_token

\* C22: as long as a session id stays in the store, the created_at, the
\* database name and the credentials of its record stay what they were, and
\* its cookies and token change only in a step of a relay that
\* re-authenticates this very session
C22_RecordImmutable ==
    [][ \A i \in 1..Len(sessions) : \A j \in 1..Len(sessions') :
          sessions[i].sid = sessions'[j].sid =>
             LET old == heap[sessions[i].obj]
                 new == heap'[sessions'[j].obj]
             IN  /\ new.created_at = old.created_at
                 /\ new.database_name = old.database_name
                 /\ new.creds = old.creds
                 /\ (new.cookies # old.cookies
                        \/ new.auth_token # old.auth_token)
                      => \E t \in Threads :
                            /\ th[t].pc \in { "relogin_wait", "set_token" }
                            /\ th[t].ses = sessions[i].obj ]_vars

\* C23: a relay whose outbound request (the first attempt, the re-login or
\* the retry) ends without an answer (timeout, connection failure) answers
\* its caller with a gateway error (502, 503 or 504) raised as such, and
\* sends nothing more
C23_UnreachableIsGateway ==
    [][ \A t \in Threads :
          ( /\ th'[t].pc = "done"
            /\ \/ th[t].pc = "wait1" /\ th'[t].r = NoResponse
               \/ th[t].pc = "relogin_wait" /\ th'[t].login_status = 0
               \/ th[t].pc = "wait2" /\ th'[t].r2 = NoResponse )
          => /\ th'[t].result.type = "HTTPException"
             /\ th'[t].result.status \in { 502, 503, 504 }
             /\ th'[t].nUp = th[t].nUp
             /\ th'[t].nLogin = th[t].nLogin
             /\ sent' = sent ]_vars

\* C24: a relay goes through its steps in the order fetch the session and
\* build the request, first attempt, then either done or re-login, retry,
\* done; it sends at most two upstream requests and at most one login request,
\* the login request only after a first answer of 401 on a session that keeps
\* credentials; and every relay under way comes to its end
C24_RelaySteps ==
    /\ [][ \A t \in Threads :
             LET f == th[t]
                 g == th'[t]
             IN  /\ g.pc # f.pc =>
                      \/ f.pc = "idle"  /\ g.pc \in { "fetch", "done" }
                      \/ f.pc = "fetch" /\ g.pc \in { "first", "done" }
                      \/ f.pc = "first" /\ g.pc \in { "wait1", "done" }
                      \/ f.pc = "wait1" /\ g.pc \in { "relogin_wait", "done" }
                      \/ f.pc = "relogin_wait"
                            /\ g.pc \in { "set_token", "done" }
                      \/ f.pc = "set_token" /\ g.pc = "wait2"
                      \/ f.pc = "wait2" /\ g.pc = "done"
                      \/ f.pc = "done"  /\ g.pc = "idle"
                 /\ g.op = "call" =>
                      /\ g.nUp <= 2
                      /\ g.nLogin <= 1
                      /\ g.nUp >= f.nUp \/ g.pc = "idle"
                      /\ g.nLogin > 0 => g.r.status = 401
                      /\ g.pc = "relogin_wait" =>
                            /\ heap'[g.ses].creds.present
                            /\ g.nUp = 1
                      /\ g.pc = "wait2" => g.nLogin = 1 ]_vars
    /\ \A t \in 1..2 :
          (th[t].pc \in { "fetch", "first", "wait1", "relogin_wait",
                          "set_token", "wait2" }) ~> (th[t].pc = "done")

\* a relay that took the long way: 401, re-login, retry answered 200
C24_Reached ==
    /\ th[1].pc = "done" /\ th[1].op = "call"
    /\ th[1].nUp = 2 /\ th[1].nLogin = 1
    /\ th[1].r.status = 401 /\ th[1].r2.status = 200
    /\ th[1].result.type = "ProxyResponse"

\* C25: the record a login creates keeps credentials exactly when the login
\* asked for remember, and then the username, password and database name of
\* that login; no later step other than a login changes the credentials kept
\* under an id; and /session/active reports auto_login_enabled for the latest
\* session exactly when its record keeps credentials
C25_RememberOptIn ==
    [][ \A t \in Threads :
          LET f == th[t]
              g == th'[t]
              At(d, k) == CHOOSE i \in 1..Len(d) : d[i].sid = k
          IN  /\ (f.pc = "login_wait" /\ g.result.type = "LoginResponse") =>
                   LET rec == heap'[sessions'[At(sessions',
                                        g.result.session_id)].obj]
                   IN  /\ rec.creds.present <=> f.req.remember
                       /\ g.result.remember = f.req.remember
                       /\ f.req.remember =>
                            /\ rec.creds.username = f.req.username
                            /\ rec.creds.password = f.req.password
                            /\ rec.creds.database_name = f.req.databaseName
              /\ (\A u \in Threads : th[u].pc # "login_wait") =>
                   \A i \in 1..Len(sessions) : \A j \in 1..Len(sessions') :
                      sessions[i].sid = sessions'[j].sid =>
                         heap'[sessions'[j].obj].creds
                             = heap[sessions[i].obj].creds
              /\ (f.pc = "idle" /\ g.op = "session_active"
                     /\ g.result.type = "SessionActive") =>
                   g.result.auto_login_enabled
                      = heap[sessions[At(sessions,
                                 g.result.session_id)].obj].creds.present
      ]_vars

\* /session/active has answered for a session whose login asked for remember
C25_Reached ==
    /\ th[1].pc = "done" /\ th[1].op = "session_active"
    /\ th[1].result.type = "SessionActive"
    /\ th[1].result.auto_login_enabled
    /\ heap[get_session(th[1].result.session_id)].creds
          = [present |-> TRUE, username |-> << "u" >>, password |-> << "p" >>,
             database_name |-> << "d" >>]

\* C26: /session/active answers 404 exactly when the store holds no session;
\* otherwise it reports the id get_latest_session_id gives, an id whose
\* created_at no other session exceeds; either way the dict, the records and
\* the file stay as they were
C26_SessionActive ==
    [][ \A t \in Threads :
          (th[t].pc = "idle" /\ th'[t].op = "session_active") =>
             LET res == th'[t].result
             IN  /\ th'[t].pc = "done"
                 /\ (res.type = "HTTPException" /\ res.status = 404)
                       <=> sessions = << >>
                 /\ sessions # << >> =>
                       /\ res.type = "SessionActive"
                       /\ res.session_id = get_latest_session_id
                       /\ \E i \in 1..Len(sessions) :
                             /\ sessions[i].sid = res.session_id
                             /\ \A j \in 1..Len(sessions) :
                                   heap[sessions[j].obj].created_at
                                      <= heap[sessions[i].obj].created_at
                 /\ sessions' = sessions /\ heap' = heap /\ disk' = disk
      ]_vars

\* /session/active has answered with the later of two sessions
C26_Reached ==
    /\ th[1].pc = "done" /\ th[1].op = "session_active"
    /\ th[1].result.type = "SessionActive"
    /\ Len(sessions) = 2
    /\ th[1].result.session_id = sessions[2].sid
    /\ heap[sessions[1].obj].created_at < heap[sessions[2].obj].created_at

\* C27: a login the upstream answers with a status of 400 or more raises an
\* HTTPException with that status and leaves the dict, the records and the
\* file as they were; a login the upstream accepts answers with a session id,
\* and the store then holds under that id, and under no other new id, a record
\* with the cookies and the token of the upstream's answer, which the
\* response returns
C27_LoginOutcome ==
    [][ \A t \in Threads :
          LET f == th[t]
              g == th'[t]
              In(d, k) == \E i \in 1..Len(d) : d[i].sid = k
              At(d, k) == CHOOSE i \in 1..Len(d) : d[i].sid = k
          IN  (f.pc = "login_wait" /\ g.pc = "done" /\ g.login_status # 0) =>
                IF g.login_status >= 400
                THEN /\ g.result.type = "HTTPException"
                     /\ g.result.status = g.login_status
                     /\ sessions' = sessions /\ heap' = heap /\ disk' = disk
                ELSE /\ g.result.type = "LoginResponse"
                     /\ In(sessions', g.result.session_id)
                     /\ LET rec == heap'[sessions'[At(sessions',
                                          g.result.session_id)].obj]
                        IN  /\ rec.cookies = g.result.cookies
                            /\ rec.auth_token = g.result.authToken
                            /\ \E a \in LoginAnswers :
                                  /\ a.status = g.login_status
                                  /\ rec.cookies = a.cookies
                                  /\ rec.auth_token =
                                        IF a.header \notin { None, "" }
                                        THEN a.header ELSE a.json
                     /\ \A k \in { mk_session_id(n) : n \in 0..MaxClock + 1 }
                                    \ { g.result.session_id } :
                           /\ In(sessions', k) <=> In(sessions, k)
                           /\ In(sessions, k) =>
                                heap'[sessions'[At(sessions', k)].obj]
                                   = heap[sessions[At(sessions, k)].obj]
      ]_vars

\* a rejected login after an accepted one: the store still holds the session
C27_Reached ==
    /\ th[1].pc = "done" /\ th[1].op = "login"
    /\ th[1].login_status = 401
    /\ th[1].result.type = "HTTPException" /\ th[1].result.status = 401
    /\ Len(sessions) = 1

\* C28: no error detail a caller gets contains a username or a password
\* that some session of the store remembers, whatever the text of the
\* upstream's answers
C28_NoCredsInDetail ==
    \A t \in Threads :
        (th[t].pc = "done" /\ "text" \in DOMAIN th[t].result) =>
            \A i \in 1..Len(sessions) :
                LET creds == heap[sessions[i].obj].creds
                IN  creds.present =>
                       /\ IndexOf(th[t].result.text, creds.username) = 0
                       /\ IndexOf(th[t].result.text, creds.password) = 0

\* C29: the URL /call builds is the base URL without its trailing "/",
\* then "/", then the path without the "/" it begins with, however many, then,
\* only if the query has a parameter, "?" and the encoded parameters; without
\* a parameter the URL has no "?"
C29_TargetUrl ==
    [][ \A t \in Threads :
          (th[t].pc = "fetch" /\ th[t].op = "call" /\ th'[t].pc = "first") =>
             LET path   == th[t].req.path
                 query  == th[t].req.query
                 url    == th'[t].url
                 base   == RStripSlash(P6_BASE_URL)
                 params == IF query.given THEN query.params ELSE << >>
             IN  /\ \E k \in 0..Len(path) :
                       /\ \A i \in 1..k : path[i] = "/"
                       /\ k < Len(path) => path[k + 1] # "/"
                       /\ url = base \o << "/" >>
                                  \o SubSeq(path, k + 1, Len(path))
                                  \o (IF params = << >> THEN << >>
                                      ELSE << "?" >> \o urlencode(params))
                 /\ params = << >> => IndexOf(url, << "?" >>) = 0
      ]_vars

\* C30: /health answers, whatever the store holds, with status 200, ok true,
\* status "healthy" and the headers that forbid caching; its list of sessions
\* has one entry for each session of the store and no other, in the store's
\* order; the dict, the records and the file stay as they were
C30_Health ==
    [][ \A t \in Threads :
          (th[t].pc = "idle" /\ th'[t].op = "health") =>
             LET res == th'[t].result
             IN  /\ th'[t].pc = "done"
                 /\ res.type = "Response"
                 /\ res.status_code = 200
                 /\ res.content.ok = TRUE
                 /\ res.content.status = "healthy"
                 /\ res.headers["Cache-Control"]
                       = "no-cache, no-store, must-revalidate"
                 /\ res.headers["Pragma"] = "no-cache"
                 /\ res.headers["Expires"] = "0"
                 /\ Len(res.content.sessions) = Len(sessions)
                 /\ \A i \in 1..Len(sessions) :
                       /\ res.content.sessions[i].session_id = sessions[i].sid
                       /\ res.content.sessions[i].auto_login_enabled
                             = heap[sessions[i].obj].creds.present
                 /\ sessions' = sessions /\ heap' = heap /\ disk' = disk
      ]_vars

\* /health has answered with two sessions, one with credentials and one
\* without
C30_Reached ==
    /\ th[1].pc = "done" /\ th[1].op = "health"
    /\ Len(th[1].result.content.sessions) = 2
    /\ Len(sessions) = 2
    /\ \E i, j \in 1..2 :
          /\ th[1].result.content.sessions[i].auto_login_enabled
          /\ ~th[1].result.content.sessions[j].auto_login_enabled

\* C31: after a first answer of 401 and an accepted re-login, the record the
\* store holds under the session id has the cookies and the token of the
\* re-login's answer (no token if the answer had none) when the retry goes
\* out; the retry's answer goes back to the caller whatever its status; and a
\* relay that starts later sends, unless its caller passes a Cookie, the
\* cookies the record then holds
C31_ReauthThenRetry ==
    [][ \A t \in Threads :
          LET f == th[t]
              g == th'[t]
              In(d, k) == \E i \in 1..Len(d) : d[i].sid = k
              At(d, k) == CHOOSE i \in 1..Len(d) : d[i].sid = k
          IN  /\ (f.pc = "relogin_wait" /\ g.pc = "set_token") =>
                    \E a \in HeaderAnswers :
                       /\ a.status = g.login_status /\ a.status < 400
                       /\ heap'[f.ses].cookies = a.cookies
                       /\ g.new_token = IF a.header \notin { None, "" }
                                        THEN a.header ELSE a.json
              /\ (f.pc = "set_token" /\ g.pc = "wait2") =>
                    /\ In(sessions', f.ses_id)
                    /\ LET rec == heap'[sessions'[At(sessions',
                                                     f.ses_id)].obj]
                       IN  /\ rec.cookies = heap[f.ses].cookies
                           /\ rec.auth_token = f.new_token
                           /\ g.headers["Cookie"] = rec.cookies
                    /\ g.nUp = f.nUp + 1
              /\ (f.pc = "wait2" /\ g.pc = "done" /\ g.r2 # NoResponse) =>
                    /\ g.result.type = "ProxyResponse"
                    /\ g.result.status = g.r2.status
                    /\ g.result.body = g.r2.body
              /\ (f.pc = "fetch" /\ g.pc = "first"
                     /\ f.req.headers["Cookie"] = None) =>
                    g.headers["Cookie"]
                       = heap[sessions[At(sessions, f.ses_id)].obj].cookies
      ]_vars

\* a retry answered 401 has gone back to the caller, after a re-login that
\* gave new cookies and no token
C31_Reached ==
    /\ th[1].pc = "done" /\ th[1].op = "call"
    /\ th[1].r.status = 401 /\ th[1].r2.status = 401
    /\ th[1].result.type = "ProxyResponse" /\ th[1].result.status = 401
    /\ heap[get_session("0")].cookies = "c2"
    /\ heap[get_session("0")].auth_token = None

\* C32 as stated: the headers of the retry have Cookie, AuthToken (if the
\* re-login gave a token), Accept and Version from the updated session and
\* the configuration, no value a caller passed for one of these four, in
\* whatever spelling of the name, and every other header of the caller as it
\* was
C32_RetryHeaders ==
    [][ \A t \in Threads :
          (th[t].pc = "set_token" /\ th'[t].pc = "wait2") =>
             LET before == th[t].headers
                 sent2  == th'[t].headers
                 ses    == heap'[th[t].ses]
             IN  /\ sent2["Cookie"] = ses.cookies
                 /\ sent2["AuthToken"] = IF ses.auth_token \in { None, "" }
                                         THEN None ELSE ses.auth_token
                 /\ ses.auth_token = th[t].new_token
                 /\ sent2["Accept"] = "application/json"
                 /\ sent2["Version"] = IF P6_VERSION = "" THEN None
                                       ELSE P6_VERSION
                 /\ sent2["X-Trace"] = before["X-Trace"]
                 /\ sent2["cookie"] = None ]_vars

\* C33: the headers /call builds for the first attempt are Accept and the
\* session's Cookie, Version if P6_VERSION is set, AuthToken if the session
\* has a token, and over these every header the caller passed, under its
\* name; the first request goes out with these headers
C33_FirstHeaders ==
    [][ \A t \in Threads :
          LET f == th[t]
              g == th'[t]
          IN  /\ (f.pc = "fetch" /\ f.op = "call" /\ g.pc = "first") =>
                   LET ses    == heap'[g.ses]
                       caller == f.req.headers
                   IN  \A n \in HeaderNames :
                          g.headers[n] =
                             IF caller[n] # None THEN caller[n]
                             ELSE IF n = "Accept" THEN "application/json"
                             ELSE IF n = "Cookie" THEN ses.cookies
                             ELSE IF n = "Version" /\ P6_VERSION # ""
                             THEN P6_VERSION
                             ELSE IF n = "AuthToken"
                                     /\ ses.auth_token \notin { None, "" }
                             THEN ses.auth_token
                             ELSE None
              /\ (f.pc = "first" /\ g.pc = "wait1") => g.headers = f.headers
      ]_vars

\* a first request under way for a session without token, with P6_VERSION
\* set, the caller's Cookie in place of the session's and the caller's
\* X-Trace added
C33_Reached ==
    /\ th[1].pc = "wait1" /\ th[1].op = "call"
    /\ heap[th[1].ses].auth_token = None
    /\ heap[th[1].ses].cookies = "c2"
    /\ th[1].headers["Cookie"] = "x"
    /\ th[1].headers["AuthToken"] = None
    /\ th[1].headers["Version"] = "v1"
    /\ th[1].headers["X-Trace"] = "x"
    /\ th[1].headers["Accept"] = "application/json"

\* C34: DELETE /session/{id} answers 404 for an id the store does not hold
\* and then leaves the dict, the records and the file as they were; for an id
\* the store holds it takes this id out and leaves the other ids, in their
\* order, with their records
C34_DeleteSession ==
    [][ \A t \in Threads :
          (th[t].pc = "idle" /\ th'[t].op = "delete_session") =>
             LET sid == th'[t].req.session_id
                 res == th'[t].result
                 In(d, k) == \E i \in 1..Len(d) : d[i].sid = k
                 rest == SelectSeq(sessions, LAMBDA e : e.sid # sid)
             IN  IF ~In(sessions, sid)
                 THEN /\ res.type = "HTTPException" /\ res.status = 404
                      /\ sessions' = sessions /\ heap' = heap
                      /\ disk' = disk
                 ELSE /\ res.type = "Message"
                      /\ ~In(sessions', sid)
                      /\ Len(sessions') = Len(rest)
                      /\ \A i \in 1..Len(rest) :
                            /\ sessions'[i].sid = rest[i].sid
                            /\ heap'[sessions'[i].obj] = heap[rest[i].obj]
      ]_vars

\* one of two sessions has been deleted: the other is still there
C34_Reached ==
    /\ th[1].pc = "done" /\ th[1].op = "delete_session"
    /\ th[1].result.type = "Message"
    /\ Len(sessions) = 1
    /\ sessions[1].sid # th[1].req.session_id

\* C35 as stated: once DELETE /session/{id} has answered 'deleted', a /call
\* that names the deleted id ends at its fetch with 401 and no request made,
\* whatever happened since; and while the store is empty after DELETE
\* /sessions/clear, /session/active answers 404 and a /call without
\* session_id ends with 401
C35_DeletedForGood ==
    [][ LET d == th[1]
            f == th[2]
            g == th'[2]
            gone(k) == /\ d.pc = "done"
                       /\ d.op = "delete_session"
                       /\ d.result.type = "Message"
                       /\ d.req.session_id = k
        IN  /\ \A k \in AllIds :
                  (gone(k) /\ f.pc = "fetch" /\ f.req.session_id = k
                      /\ g # f) =>
                     /\ g.pc = "done"
                     /\ g.result.type = "HTTPException"
                     /\ g.result.status = 401
                     /\ g.nUp = 0 /\ g.nLogin = 0
                     /\ sent' = sent
            /\ (d.pc = "done" /\ d.op = "clear_all_sessions"
                   /\ sessions = << >> /\ f.pc = "idle") =>
                  /\ g.op = "session_active" =>
                        /\ g.result.type = "HTTPException"
                        /\ g.result.status = 404
                  /\ (g.op = "call" /\ g.req.session_id = None) =>
                        /\ g.pc = "done"
                        /\ g.result.type = "HTTPException"
                        /\ g.result.status = 401
                        /\ g.nUp = 0
                        /\ sent' = sent
      ]_vars

\* C36: a relay on session X, re-login included, leaves the ids of the store
\* as they are and leaves every record other than X's as it is: from the
\* moment the endpoint is entered to the moment its result is ready, no step
\* of the relay adds or removes an id or changes a field of another session
C36_RelayKeepsOthers ==
    [][ LET f == th[1]
            g == th'[1]
            relay == { "call", "obs_find", "obs_by_name", "projects_list",
                       "projects_by_obs" }
            At(d, h, k) ==
                h[d[CHOOSE i \in 1..Len(d) : d[i].sid = k].obj]
        IN  (\/ f.pc = "idle" /\ g.op \in relay
             \/ f.op \in relay /\ f.pc \notin { "idle", "done" }) =>
               /\ { sessions'[i].sid : i \in 1..Len(sessions') }
                     = { sessions[i].sid : i \in 1..Len(sessions) }
               /\ Len(sessions') = Len(sessions)
               /\ \A i \in 1..Len(sessions) :
                     LET k == sessions[i].sid
                     IN  k # g.ses_id =>
                            At(sessions', heap', k) = At(sessions, heap, k)
      ]_vars

\* a relay on one of two sessions has re-logged in and sent its retry: its
\* record carries the new cookie, the other record is the one its login made
C36_Reached ==
    /\ th[1].op = "call" /\ th[1].pc = "wait2"
    /\ Len(sessions) = 2
    /\ heap[th[1].ses].cookies = "c2"
    /\ \E i \in 1..2 : /\ sessions[i].sid # th[1].ses_id
                        /\ heap[sessions[i].obj].cookies = "c1"

\* C37: when a session is deleted while a relay on it is in flight, the
\* relay's re-login does not put it back: no step of a relay adds an id to
\* the store or to the snapshot file, and an id that is in neither stays out
\* of both until the answer of a new login arrives
C37_DeletedStaysOut ==
    [][ LET f == th[2]
            g == th'[2]
            In(d, k) == \E i \in 1..Len(d) : d[i].sid = k
        IN  /\ (f.op = "call" /\ g # f) =>
                  \A k \in AllIds :
                     /\ In(sessions', k) => In(sessions, k)
                     /\ In(disk', k) => In(disk, k)
            /\ ~(f.pc = "login_wait" /\ g.pc = "done") =>
                  \A k \in AllIds :
                     (~In(sessions, k) /\ ~In(disk, k)) =>
                        (~In(sessions', k) /\ ~In(disk', k))
      ]_vars

\* the session of a relay was deleted while the relay waited for its first
\* answer; the relay has re-logged in, refreshed the object it holds and
\* sent the retry, and its id is in neither the store nor the file
C37_Reached ==
    /\ th[2].op = "call" /\ th[2].pc = "wait2"
    /\ th[2].nLogin = 1
    /\ heap[th[2].ses].cookies = "c2"
    /\ \A i \in 1..Len(sessions) : sessions[i].sid # th[2].ses_id
    /\ \A i \in 1..Len(disk) : disk[i].sid # th[2].ses_id
    /\ th[1].pc = "idle"

\* C38 as stated: once DELETE /session/{id} has answered 'deleted' and the
\* id is out of the store, a relay on that session that is still in flight
\* starts no login request and no upstream request from then on
C38_NoRequestsAfterDelete ==
    [][ LET d == th[1]
            f == th[2]
            g == th'[2]
        IN  (/\ d.pc = "done" /\ d.op = "delete_session"
             /\ d.result.type = "Message"
             /\ f.op = "call" /\ f.ses_id = d.req.session_id
             /\ \A i \in 1..Len(sessions) : sessions[i].sid # f.ses_id
             /\ g # f) =>
               /\ g.nLogin = f.nLogin
               /\ g.nUp = f.nUp
      ]_vars

\* C39 as stated: in /projects/by_obs with obs_name and no obs_id, when the
\* lookup of the name has come back as a success with an empty list the
\* endpoint raises a 404, and when it has come back with a status of 400 or
\* more the endpoint returns that response as it is; in both cases no
\* request follows the lookup (a lookup that could not reach the upstream
\* has not come back and is left aside)
C39_ObsLookupEnds ==
    [][ LET f == th[1]
            g == th'[1]
            resp == IF g.r2.status # 0 THEN g.r2 ELSE g.r
        IN  (/\ f.op = "projects_by_obs" /\ f.stage = "obs"
             /\ f.pc \in { "wait1", "relogin_wait", "wait2" }
             /\ g.pc = "done"
             /\ ~(/\ g.result.type = "Unhandled"
                  /\ g.result.detail = "RequestException")) =>
               /\ (resp.status < 400 /\ resp.body = "json_empty") =>
                     /\ g.result.type = "HTTPException"
                     /\ g.result.status = 404
                     /\ g.nUp = f.nUp /\ sent' = sent
               /\ resp.status >= 400 =>
                     /\ g.result = ProxyResponse(resp.status, resp.body)
                     /\ g.nUp = f.nUp /\ sent' = sent
      ]_vars

=============================================================================
